---------------------------- MODULE Spec2Model ----------------------------
(***************************************************************************)
(* Model of the repository engine of crates/core/src/repo.rs (struct Repo) *)
(* over the key-value store, signing and clock capabilities it is given.   *)
(* The store is one map from keys to bytes, as in the KvStore the engine   *)
(* is written against; each public operation is a sequence of steps that   *)
(* may stop between two storage calls (an error return or a crash).        *)
(*                                                                         *)
(* Option<T> is modelled as a sequence: <<>> is None and <<x>> is Some(x). *)
(* Strings that the code builds with format! are sequences of tokens.      *)
(***************************************************************************)
EXTENDS Integers, Sequences, FiniteSets, TLC

VARIABLES
    store,      \* KvStore contents: key -> bytes
    keypair,    \* the signing capability's stored secret key (Option)
    clock,      \* the reading Clock::now() returns
    pc,         \* position of the operation in flight: "idle" or "commit"
    op,         \* the RecordOp handed to create_commit (Option)
    call,       \* the call in flight or last made, with what it saw on entry
    ret,        \* what the last finished call returned
    log,        \* history: the CIDs create_commit persisted, in order
    begun,      \* history: how many mutations and restores were begun
    persisted,  \* history: <<key, cid>> of every record ever persisted
    saved,      \* the backup the caller has kept, and what it was taken from
    wasm,       \* the browser binding's WasmRepository
    docs,       \* the AutomergeDoc values the caller holds, by handle
    utc,        \* the reading of chrono's Utc::now(), in microseconds
    generated,  \* history: the keys RecordKey::generate returned, in order
    tasks       \* the mutations in flight that interleave, by task

vars == <<store, keypair, clock, pc, op, call, ret, log, begun, persisted,
          saved, wasm, docs, utc, generated, tasks>>

\* What the engine called by one caller at a time, and the browser binding,
\* never touch
types == <<docs, utc, generated, tasks>>

---------------------------------------------------------------------------
(* Bounds and input sets *)

MaxCalls == 3
MaxListed == 3

Times == {1, 2}
SecretKeys == {"skA"}
Collections == {"app.feed.post"}
RecordKeys == {"post1", "post2"}
Values == {[kind |-> "object", text |-> "hi"],
           [kind |-> "object", text |-> "hi edited"]}

\* The callers whose mutations interleave over one store: two Repo
\* instances, or two calls of the browser API not awaited
Tasks == {"t1", "t2"}

\* Collections and record keys of which some contain '/'
PathCollections == {"app.feed", "app.feed/post"}
PathKeys == {"1", "post/1"}

\* serde_json::Value inputs: the objects above and a JSON string
JsonValues == Values \cup {[kind |-> "string", text |-> "hi"]}

\* Inputs of the browser binding: DID strings (one without the "did:"
\* prefix) and post texts
DidStrings == {<<"did:", "example:alice">>, <<"alice">>}
Texts == {"hi", "hi edited"}

None == <<>>
Some(x) == <<x>>

\* The names the caller binds AutomergeDoc values to, in the order it binds
\* them, each once
Handles == <<"doc1", "doc2">>
DocIds == {Handles[i] : i \in DOMAIN Handles}
\* How many times the caller writes a JSON value to one document
MaxWrites == 2
\* i64::MAX, brought down to the number range of the model
I64_MAX == 7
\* Utc::now() when the process starts, and the last reading modelled
FirstMicros == 8
LastMicros == 12
\* How many keys RecordKey::generate is asked for
MaxGenerated == 3
Versions == 0..(MaxCalls + 1)

---------------------------------------------------------------------------
(* records.rs: storage keys *)

KEYPAIR_LENGTH == 32
IDENTITY_KEY == <<"identity">>
COMMITS_PREFIX == "commits/"
RECORDS_PREFIX == "records/"

\* format!("{}", version): the decimal digits of each version
decimal == [n \in Versions |-> ToString(n)]

commit_key(version) == <<COMMITS_PREFIX, decimal[version]>>

\* A string as the pieces between its '/' characters and those characters:
\* format! joins the pieces and starts_with compares them one by one
segments(s) ==
    CASE s = "app.feed/post" -> <<"app.feed", "/", "post">>
      [] s = "post/1" -> <<"post", "/", "1">>
      [] OTHER -> <<s>>

record_key(collection, rkey) ==
    <<RECORDS_PREFIX>> \o segments(collection) \o <<"/">> \o segments(rkey)

collection_prefix(collection) ==
    <<RECORDS_PREFIX>> \o segments(collection) \o <<"/">>

starts_with(key, prefix) == Len(key) >= 1 /\ key[1] = prefix

\* str::starts_with for a prefix made of several tokens
starts_with_all(key, prefix) ==
    Len(key) >= Len(prefix) /\ SubSeq(key, 1, Len(prefix)) = prefix

\* str::strip_prefix(COMMITS_PREFIX) then parse::<u64>()
parse_version(key) ==
    IF starts_with(key, COMMITS_PREFIX) /\ Len(key) = 2
          /\ \E n \in Versions : decimal[n] = key[2]
    THEN Some(CHOOSE n \in Versions : decimal[n] = key[2])
    ELSE None

---------------------------------------------------------------------------
(* KvStore *)

kv_get(key) == IF key \in DOMAIN store THEN Some(store[key]) ELSE None

kv_set(s, key, value) ==
    [k \in DOMAIN s \cup {key} |-> IF k = key THEN value ELSE s[k]]

\* kv_delete removing every key that begins like the one given
kv_delete_like(s, key) == [k \in {j \in DOMAIN s : j[1] # key[1]} |-> s[k]]

kv_delete(s, key) == [k \in DOMAIN s \ {key} |-> s[k]]

list_keys(prefix) == {k \in DOMAIN store : starts_with(k, prefix)}

EmptyStore == [k \in {} |-> None]

---------------------------------------------------------------------------
(* Crypto: Ed25519 signatures, idealised: a signature names the key that  *)
(* made it and the message it was made over.                              *)

verifying_key(sk) == <<"pk", sk>>

bytes_to_did(public_key) == <<"did:key:z", public_key>>

did_to_bytes(did) ==
    IF Len(did) = 2 /\ did[1] = "did:key:z" THEN Some(did[2]) ELSE None

sign(data) == [signer |-> verifying_key(keypair[1]), msg |-> data]

verify(data, signature, public_key) ==
    /\ did_to_bytes(public_key) # None
    /\ signature.signer = did_to_bytes(public_key)[1]
    /\ signature.msg = data

---------------------------------------------------------------------------
(* serde_json encodings of what the engine stores *)

did_bytes(did) == <<"utf8", did>>
from_utf8_lossy(data) == data[2]

ser_record(r) ==
    <<<<"uri", r.uri>>, <<"cid", r.cid>>, <<"value", r.value>>,
      <<"timestamp", r.timestamp>>>>
de_record(b) ==
    [uri |-> b[1][2], cid |-> b[2][2], value |-> b[3][2], timestamp |-> b[4][2]]

ser_commit(c) ==
    <<<<"did", c.did>>, <<"version", c.version>>, <<"prev", c.prev>>,
      <<"data", c.data>>, <<"sig", c.sig>>, <<"timestamp", c.timestamp>>,
      <<"cid", c.cid>>>>
de_commit(b) ==
    [did |-> b[1][2], version |-> b[2][2], prev |-> b[3][2], data |-> b[4][2],
     sig |-> b[5][2], timestamp |-> b[6][2], cid |-> b[7][2]]

\* RecordOp is an externally tagged enum: {"Create": {collection, rkey, value}}
ser_op(o) ==
    IF o.type = "Delete"
    THEN <<o.type, [collection |-> o.collection, rkey |-> o.rkey]>>
    ELSE <<o.type, [collection |-> o.collection, rkey |-> o.rkey,
                    value |-> o.value]>>

\* SHA-256 of the JSON bytes, collision free: the digest names its input
compute_cid(value) == <<"bafyrei", value>>

commit_for_cid(c) ==
    [did |-> c.did, version |-> c.version, prev |-> c.prev, data |-> c.data,
     sig |-> c.sig, timestamp |-> c.timestamp]

---------------------------------------------------------------------------
(* repo.rs: helpers of the engine *)

at_uri(did, collection, rkey) ==
    [did |-> did, collection |-> collection, rkey |-> rkey]

get_identity ==
    IF kv_get(IDENTITY_KEY) # None
    THEN Some(from_utf8_lossy(kv_get(IDENTITY_KEY)[1]))
    ELSE None

\* max_version with the comparison turned round: the smallest version wins
RECURSIVE min_version(_, _)
min_version(keys, acc) ==
    IF keys = {} THEN acc
    ELSE LET key == CHOOSE k \in keys : TRUE
             v == parse_version(key)
         IN min_version(keys \ {key},
                        IF v # None /\ (acc = 0 \/ v[1] < acc)
                        THEN v[1] ELSE acc)

RECURSIVE max_version(_, _)
max_version(keys, acc) ==
    IF keys = {} THEN acc
    ELSE LET key == CHOOSE k \in keys : TRUE
             v == parse_version(key)
         IN max_version(keys \ {key},
                        IF v # None /\ v[1] > acc THEN v[1] ELSE acc)

\* get_latest_version scanning the records' prefix instead of the commits'
get_latest_version_wrong_prefix == max_version(list_keys(RECORDS_PREFIX), 0)

get_latest_version == max_version(list_keys(COMMITS_PREFIX), 0)

get_commit(version) ==
    IF kv_get(commit_key(version)) # None
    THEN LET c == de_commit(kv_get(commit_key(version))[1])
         IN Some([c EXCEPT !.cid = compute_cid(commit_for_cid(c))])
    ELSE None

\* prev_of that links every later commit to the first one
prev_of_first(version) ==
    IF version > 1
    THEN IF get_commit(1) # None
         THEN Some(get_commit(1)[1].cid)
         ELSE None
    ELSE None

\* prev_of with the first link dropped: the test is version > 2
prev_of_from_third(version) ==
    IF version > 2
    THEN IF get_commit(version - 1) # None
         THEN Some(get_commit(version - 1)[1].cid)
         ELSE None
    ELSE None

\* create_commit, "Get previous commit CID if exists"
prev_of(version) ==
    IF version > 1
    THEN IF get_commit(version - 1) # None
         THEN Some(get_commit(version - 1)[1].cid)
         ELSE None
    ELSE None

\* new_record keeping the CID of the record already stored at the path
new_record_stale_cid(did, collection, rkey, value, timestamp) ==
    LET old == kv_get(record_key(collection, rkey))
    IN [uri |-> at_uri(did, collection, rkey),
        cid |-> IF old = None THEN compute_cid(value)
                ELSE de_record(old[1]).cid,
        value |-> value,
        timestamp |-> timestamp]

new_record(did, collection, rkey, value, timestamp) ==
    [uri |-> at_uri(did, collection, rkey),
     cid |-> compute_cid(value),
     value |-> value,
     timestamp |-> timestamp]

new_commit(did, version, data, timestamp) ==
    LET c == [did |-> did, version |-> version, prev |-> prev_of(version),
              data |-> data, sig |-> sign(data), timestamp |-> timestamp]
    IN [did |-> c.did, version |-> c.version, prev |-> c.prev, data |-> c.data,
        sig |-> c.sig, timestamp |-> c.timestamp, cid |-> compute_cid(c)]

get_record(collection, rkey) ==
    IF kv_get(record_key(collection, rkey)) # None
    THEN Some(de_record(kv_get(record_key(collection, rkey))[1]))
    ELSE None

\* The CID the next commit will carry as prev (create_commit, lines 191-199)
head == prev_of(get_latest_version + 1)

Ok(value) == [status |-> "Ok", value |-> value]
Err(kind) == [status |-> kind, value |-> None]
Pending == [status |-> "Pending", value |-> None]

Entry(name, collection, rkey, value) ==
    [name |-> name, collection |-> collection, rkey |-> rkey, value |-> value,
     existed |-> get_record(collection, rkey) # None,
     before |-> get_record(collection, rkey),
     head |-> head,
     record |-> None]

NoCall ==
    [name |-> "new", collection |-> "", rkey |-> "", value |-> None,
     existed |-> FALSE, before |-> None, head |-> None, record |-> None]

---------------------------------------------------------------------------
(* repo.rs: the operations *)

\* A task with no mutation in flight
NoTask == [pc |-> "idle", op |-> None, version |-> 0, prev |-> None]

\* A handle that holds no document
NoDoc == [held |-> None, written |-> {}, writes |-> 0, by |-> ""]

\* WasmRepository::new
WasmRepository_new == [repo |-> None, store |-> None, did |-> None]

Init ==
    /\ store = EmptyStore
    /\ keypair = None
    /\ clock = 1
    /\ pc = "idle"
    /\ op = None
    /\ call = NoCall
    /\ ret = Pending
    /\ log = <<>>
    /\ begun = 0
    /\ persisted = {}
    /\ saved = None
    /\ wasm = WasmRepository_new
    /\ docs = [h \in DocIds |-> NoDoc]
    /\ tasks = [t \in Tasks |-> NoTask]
    /\ utc = FirstMicros
    /\ generated = <<>>

\* init_identity without its check for an identity already stored, writing
\* the identity into a store it has emptied
init_identity_reset ==
    /\ pc = "idle"
    /\ call' = [NoCall EXCEPT !.name = "init_identity"]
    /\ \E sk \in SecretKeys :
          /\ keypair = None \/ keypair = Some(sk)
          /\ keypair' = Some(sk)
          /\ store' = kv_set(EmptyStore, IDENTITY_KEY,
                             did_bytes(bytes_to_did(verifying_key(sk))))
          /\ ret' = Ok(bytes_to_did(verifying_key(sk)))
    /\ UNCHANGED types
    /\ UNCHANGED <<clock, pc, op, log, begun, persisted, saved, wasm>>

\* Repo::init_identity, with WebCrypto::generate_keypair
init_identity ==
    /\ pc = "idle"
    /\ call' = [NoCall EXCEPT !.name = "init_identity"]
    /\ IF get_identity # None
       THEN /\ ret' = Ok(get_identity[1])
            /\ UNCHANGED <<store, keypair, saved, wasm>>
       ELSE \E sk \in SecretKeys :
              /\ keypair = None \/ keypair = Some(sk)
              /\ keypair' = Some(sk)
              /\ store' = kv_set(store, IDENTITY_KEY,
                                 did_bytes(bytes_to_did(verifying_key(sk))))
              /\ ret' = Ok(bytes_to_did(verifying_key(sk)))
    /\ UNCHANGED types
    /\ UNCHANGED <<clock, pc, op, log, begun, persisted, saved, wasm>>

\* write_record without its store.set(record): the record is handed to
\* create_commit before anything is persisted
write_record_unsaved(name, type, collection, rkey, value) ==
    /\ pc = "idle"
    /\ begun < MaxCalls
    /\ begun' = begun + 1
    /\ call' = Entry(name, collection, rkey, value)
    /\ op' = Some([type |-> type, collection |-> collection,
                   rkey |-> rkey, value |-> value])
    /\ pc' = "commit"
    /\ ret' = Pending
    /\ UNCHANGED types
    /\ UNCHANGED <<store, keypair, clock, log, persisted, saved, wasm>>

\* write_record without its check of the identity: with no identity stored
\* the record is written under the DID of no key
write_record_unchecked(name, type, collection, rkey, value) ==
    /\ pc = "idle"
    /\ begun < MaxCalls
    /\ begun' = begun + 1
    /\ LET did == IF get_identity = None
                  THEN bytes_to_did(verifying_key("none"))
                  ELSE get_identity[1]
           record == new_record(did, collection, rkey, value, clock)
       IN /\ call' = [Entry(name, collection, rkey, value)
                         EXCEPT !.record = Some(record)]
          /\ store' = kv_set(store, record_key(collection, rkey),
                             ser_record(record))
          /\ persisted' = persisted \cup
                            {<<record_key(collection, rkey), record.cid>>}
          /\ op' = Some([type |-> type, collection |-> collection,
                         rkey |-> rkey, value |-> record.value])
          /\ pc' = "commit"
          /\ ret' = Pending
    /\ UNCHANGED types
    /\ UNCHANGED <<keypair, clock, log, saved, wasm>>

\* create_record and update_record up to and including store.set(record)
write_record(name, type, collection, rkey, value) ==
    /\ pc = "idle"
    /\ begun < MaxCalls
    /\ begun' = begun + 1
    /\ IF get_identity = None
       THEN /\ call' = Entry(name, collection, rkey, value)
            /\ ret' = Err("InvalidOperation")
            /\ UNCHANGED <<store, pc, op, persisted, saved, wasm>>
       ELSE LET record == new_record(get_identity[1], collection, rkey,
                                     value, clock)
            IN /\ call' = [Entry(name, collection, rkey, value)
                              EXCEPT !.record = Some(record)]
               /\ store' = kv_set(store, record_key(collection, rkey),
                                  ser_record(record))
               /\ persisted' = persisted \cup
                                 {<<record_key(collection, rkey), record.cid>>}
               /\ op' = Some([type |-> type, collection |-> collection,
                              rkey |-> rkey, value |-> record.value])
               /\ pc' = "commit"
               /\ ret' = Pending
    /\ UNCHANGED types
    /\ UNCHANGED <<keypair, clock, log, saved, wasm>>

create_record(collection, rkey, value) ==
    write_record("create_record", "Create", collection, rkey, value)

update_record(collection, rkey, value) ==
    write_record("update_record", "Update", collection, rkey, value)

\* delete_record without its store.delete(key): only the commit is written
delete_record_keeping(collection, rkey) ==
    /\ pc = "idle"
    /\ begun < MaxCalls
    /\ begun' = begun + 1
    /\ call' = Entry("delete_record", collection, rkey, None)
    /\ op' = Some([type |-> "Delete", collection |-> collection,
                   rkey |-> rkey])
    /\ pc' = "commit"
    /\ ret' = Pending
    /\ UNCHANGED types
    /\ UNCHANGED <<store, keypair, clock, log, persisted, saved, wasm>>

\* delete_record up to and including store.delete(key)
delete_record(collection, rkey) ==
    /\ pc = "idle"
    /\ begun < MaxCalls
    /\ begun' = begun + 1
    /\ call' = Entry("delete_record", collection, rkey, None)
    /\ store' = kv_delete(store, record_key(collection, rkey))
    /\ op' = Some([type |-> "Delete", collection |-> collection,
                   rkey |-> rkey])
    /\ pc' = "commit"
    /\ ret' = Pending
    /\ UNCHANGED types
    /\ UNCHANGED <<keypair, clock, log, persisted, saved, wasm>>

\* Repo::create_commit, the rest of create_record/update_record/delete_record
create_commit ==
    /\ pc = "commit"
    /\ pc' = "idle"
    /\ op' = None
    /\ IF get_identity = None
       THEN /\ ret' = Err("InvalidOperation")
            /\ UNCHANGED <<store, log, saved, wasm>>
       ELSE IF keypair = None
       THEN /\ ret' = Err("CryptoError")
            /\ UNCHANGED <<store, log, saved, wasm>>
       ELSE LET version == get_latest_version + 1
                commit == new_commit(get_identity[1], version, ser_op(op[1]),
                                     clock)
            IN /\ store' = kv_set(store, commit_key(version),
                                  ser_commit(commit))
               /\ log' = Append(log, commit.cid)
               /\ ret' = Ok(call.record)
    /\ UNCHANGED types
    /\ UNCHANGED <<keypair, clock, call, begun, persisted, saved, wasm>>

\* abort that returns its error after the commit has been stored
abort_committed ==
    /\ pc = "commit"
    /\ pc' = "idle"
    /\ op' = None
    /\ ret' = Err("StorageError")
    /\ IF get_identity = None \/ keypair = None
       THEN UNCHANGED <<store, log>>
       ELSE LET version == get_latest_version + 1
                commit == new_commit(get_identity[1], version, ser_op(op[1]),
                                     clock)
            IN /\ store' = kv_set(store, commit_key(version),
                                  ser_commit(commit))
               /\ log' = Append(log, commit.cid)
    /\ UNCHANGED types
    /\ UNCHANGED <<keypair, clock, call, begun, persisted, saved, wasm>>

\* The operation in flight stops before its commit is stored: a storage or
\* signing error is returned, or the process ends.
abort ==
    /\ pc = "commit"
    /\ pc' = "idle"
    /\ op' = None
    /\ ret' = Err("StorageError")
    /\ UNCHANGED types
    /\ UNCHANGED <<store, keypair, clock, call, log, begun, persisted, saved,
                   wasm>>

\* Time passes between two readings of the clock.
tick ==
    /\ clock + 1 \in Times
    /\ clock' = clock + 1
    /\ UNCHANGED types
    /\ UNCHANGED <<store, keypair, pc, op, call, ret, log, begun, persisted,
                   saved, wasm>>

\* The orders in which KvStore::list_keys may return a set of keys
RECURSIVE Orders(_)
Orders(keys) ==
    IF keys = {} THEN {<<>>}
    ELSE UNION {{<<k>> \o rest : rest \in Orders(keys \ {k})} : k \in keys}

\* A stable sort, ascending by timestamp, of a listing
RECURSIVE sort_by_timestamp(_)
sort_by_timestamp(listing) ==
    IF listing = <<>> THEN <<>>
    ELSE LET sorted == sort_by_timestamp(SubSeq(listing, 1, Len(listing) - 1))
             c == listing[Len(listing)]
             n == Cardinality({i \in DOMAIN sorted :
                                  sorted[i].timestamp <= c.timestamp})
         IN SubSeq(sorted, 1, n) \o <<c>> \o SubSeq(sorted, n + 1, Len(sorted))

\* records.sort_by(|a, b| b.timestamp.cmp(&a.timestamp)): a stable sort,
\* descending by timestamp
RECURSIVE sort_newest_first(_)
sort_newest_first(listing) ==
    IF listing = <<>> THEN <<>>
    ELSE LET sorted == sort_newest_first(SubSeq(listing, 1, Len(listing) - 1))
             r == listing[Len(listing)]
             n == Cardinality({i \in DOMAIN sorted :
                                  sorted[i].timestamp >= r.timestamp})
         IN SubSeq(sorted, 1, n) \o <<r>> \o SubSeq(sorted, n + 1, Len(sorted))

\* Repo::list_records
list_records(collection) ==
    /\ pc = "idle"
    /\ call' = [NoCall EXCEPT !.name = "list_records",
                               !.collection = collection]
    /\ \E keys \in Orders({k \in DOMAIN store :
                               starts_with_all(
                                   k, collection_prefix(collection))}) :
          ret' = Ok(sort_newest_first(
                        [i \in DOMAIN keys |-> de_record(store[keys[i]])]))
    /\ UNCHANGED types
    /\ UNCHANGED <<store, keypair, clock, pc, op, log, begun, persisted,
                   saved, wasm>>

\* Repo::backup
backup ==
    /\ pc = "idle"
    /\ Cardinality(list_keys(COMMITS_PREFIX))
         + Cardinality(list_keys(RECORDS_PREFIX)) <= MaxListed
    /\ call' = [NoCall EXCEPT !.name = "backup"]
    /\ IF get_identity = None
       THEN ret' = Err("InvalidOperation")
       ELSE IF keypair = None
       THEN ret' = Err("CryptoError")
       ELSE \E commit_keys \in Orders(list_keys(COMMITS_PREFIX)),
               record_keys \in Orders(list_keys(RECORDS_PREFIX)) :
              ret' = Ok([version |-> "1.0",
                         did |-> get_identity[1],
                         keypair |-> keypair[1],
                         commits |-> [i \in DOMAIN commit_keys |->
                                        de_commit(store[commit_keys[i]])],
                         records |-> [i \in DOMAIN record_keys |->
                                        de_record(store[record_keys[i]])],
                         timestamp |-> clock])
    /\ UNCHANGED types
    /\ UNCHANGED <<store, keypair, clock, pc, op, log, begun, persisted,
                   saved, wasm>>

\* The caller keeps the backup that backup() has just returned
keep_backup ==
    /\ pc = "idle"
    /\ call.name = "backup"
    /\ ret.status = "Ok"
    /\ saved' = Some([backup |-> ret.value, taken_from |-> store])
    /\ UNCHANGED types
    /\ UNCHANGED <<store, keypair, clock, pc, op, call, ret, log, begun,
                   persisted, wasm>>

\* import_commits storing each commit under its place in the list
RECURSIVE import_commits_by_position(_, _)
import_commits_by_position(s, commits) ==
    IF commits = <<>> THEN s
    ELSE kv_set(import_commits_by_position(
                    s, SubSeq(commits, 1, Len(commits) - 1)),
                commit_key(Len(commits)),
                ser_commit(commits[Len(commits)]))

\* Repo::restore, "Restore commits"
RECURSIVE import_commits(_, _)
import_commits(s, commits) ==
    IF commits = <<>> THEN s
    ELSE import_commits(kv_set(s, commit_key(Head(commits).version),
                               ser_commit(Head(commits))),
                        Tail(commits))

\* Repo::restore, "Restore records"
RECURSIVE import_records(_, _)
import_records(s, records) ==
    IF records = <<>> THEN s
    ELSE import_records(kv_set(s, record_key(Head(records).uri.collection,
                                             Head(records).uri.rkey),
                               ser_record(Head(records))),
                        Tail(records))

\* The length in bytes of key material: an Ed25519 secret key, or one cut
\* short
key_length(data) == IF data = "truncated" THEN KEYPAIR_LENGTH - 1
                    ELSE KEYPAIR_LENGTH

\* WebCrypto::import_keypair
import_keypair(data) ==
    IF key_length(data) # KEYPAIR_LENGTH THEN Err("CryptoError")
    ELSE Ok(bytes_to_did(verifying_key(data)))

\* restore without its store.clear(): the backup is written over the store
restore_additive(backup_data) ==
    /\ pc = "idle"
    /\ begun < MaxCalls
    /\ begun' = begun + 1
    /\ call' = [NoCall EXCEPT !.name = "restore", !.value = Some(backup_data)]
    /\ keypair' = Some(backup_data.keypair)
    /\ store' = import_records(
                    import_commits(
                        kv_set(store, IDENTITY_KEY,
                               did_bytes(backup_data.did)),
                        backup_data.commits),
                    backup_data.records)
    /\ ret' = Ok(None)
    /\ UNCHANGED types
    /\ UNCHANGED <<clock, pc, op, log, persisted, saved, wasm>>

\* restore refusing a backup that holds a commit its own DID did not sign
restore_verified(backup_data) ==
    /\ pc = "idle"
    /\ begun < MaxCalls
    /\ begun' = begun + 1
    /\ call' = [NoCall EXCEPT !.name = "restore", !.value = Some(backup_data)]
    /\ IF \A i \in DOMAIN backup_data.commits :
             verify(backup_data.commits[i].data, backup_data.commits[i].sig,
                    backup_data.did)
       THEN /\ keypair' = Some(backup_data.keypair)
            /\ store' = import_records(
                            import_commits(
                                kv_set(EmptyStore, IDENTITY_KEY,
                                       did_bytes(backup_data.did)),
                                backup_data.commits),
                            backup_data.records)
            /\ ret' = Ok(None)
       ELSE /\ ret' = Err("InvalidSignature")
            /\ UNCHANGED <<store, keypair, wasm>>
    /\ UNCHANGED types
    /\ UNCHANGED <<clock, pc, op, log, persisted, saved, wasm>>

\* Repo::restore: store.clear(), crypto.import_keypair, then the identity,
\* the commits and the records
restore(backup_data) ==
    /\ pc = "idle"
    /\ begun < MaxCalls
    /\ begun' = begun + 1
    /\ IF import_keypair(backup_data.keypair).status # "Ok"
       THEN /\ call' = [NoCall EXCEPT !.name = "restore",
                                      !.value = Some(backup_data),
                                      !.before = Some(store)]
            /\ store' = EmptyStore
            /\ ret' = import_keypair(backup_data.keypair)
            /\ UNCHANGED keypair
       ELSE /\ call' = [NoCall EXCEPT !.name = "restore",
                                      !.value = Some(backup_data)]
            /\ keypair' = Some(backup_data.keypair)
            /\ store' = import_records(
                            import_commits(
                                kv_set(EmptyStore, IDENTITY_KEY,
                                       did_bytes(backup_data.did)),
                                backup_data.commits),
                            backup_data.records)
            /\ ret' = Ok(None)
    /\ UNCHANGED types
    /\ UNCHANGED <<clock, pc, op, log, persisted, saved, wasm>>

\* Backups that were changed after backup() returned them: a commit signed
\* by another key, a prev link cut, a position listed twice, a position
\* left out
corrupted(b) ==
    (IF Len(b.commits) >= 1
     THEN {[b EXCEPT !.commits[1].sig.signer = verifying_key("skOther")]}
     ELSE {})
    \cup
    (IF Len(b.commits) >= 2
     THEN {[b EXCEPT !.commits[i].prev = None] :
              i \in {j \in DOMAIN b.commits : b.commits[j].prev # None}}
          \cup {[b EXCEPT !.commits[2].version = b.commits[1].version]}
          \cup {[b EXCEPT !.commits = Tail(b.commits)]}
     ELSE {})

Next ==
    \/ init_identity
    \/ \E c \in Collections, k \in RecordKeys, v \in Values :
         create_record(c, k, v)
    \/ \E c \in Collections, k \in RecordKeys, v \in Values :
         update_record(c, k, v)
    \/ \E c \in Collections, k \in RecordKeys : delete_record(c, k)
    \/ create_commit
    \/ abort
    \/ tick

Spec == Init /\ [][Next]_vars

\* create_commit with prev left None whatever commit was read
task_commit_unlinked(did, version, prev, data, timestamp) ==
    LET c == [did |-> did, version |-> version, prev |-> None,
              data |-> data, sig |-> sign(data), timestamp |-> timestamp]
    IN [did |-> c.did, version |-> c.version, prev |-> c.prev, data |-> c.data,
        sig |-> c.sig, timestamp |-> c.timestamp, cid |-> compute_cid(c)]

\* create_commit, the Commit it builds from the version and the prev that
\* the task read at its earlier awaits
task_commit(did, version, prev, data, timestamp) ==
    LET c == [did |-> did, version |-> version, prev |-> prev,
              data |-> data, sig |-> sign(data), timestamp |-> timestamp]
    IN [did |-> c.did, version |-> c.version, prev |-> c.prev, data |-> c.data,
        sig |-> c.sig, timestamp |-> c.timestamp, cid |-> compute_cid(c)]

\* A task enters create_record, update_record or delete_record and runs up
\* to and including its store.set(record) or store.delete(key)
task_begin(t, type, collection, rkey, value) ==
    /\ pc = "idle"
    /\ tasks[t].pc = "idle"
    /\ begun < MaxCalls
    /\ begun' = begun + 1
    /\ IF type # "Delete" /\ get_identity = None
       THEN /\ ret' = Err("InvalidOperation")
            /\ UNCHANGED <<store, persisted, tasks>>
       ELSE /\ IF type = "Delete"
               THEN /\ store' = kv_delete(store, record_key(collection, rkey))
                    /\ UNCHANGED persisted
               ELSE LET record == new_record(get_identity[1], collection,
                                             rkey, value, clock)
                    IN /\ store' = kv_set(store,
                                          record_key(collection, rkey),
                                          ser_record(record))
                       /\ persisted' = persisted \cup
                            {<<record_key(collection, rkey), record.cid>>}
            /\ tasks' = [tasks EXCEPT
                           ![t] = [NoTask EXCEPT
                                     !.pc = "stored",
                                     !.op = Some(
                                        IF type = "Delete"
                                        THEN [type |-> type,
                                              collection |-> collection,
                                              rkey |-> rkey]
                                        ELSE [type |-> type,
                                              collection |-> collection,
                                              rkey |-> rkey,
                                              value |-> value])]]
            /\ ret' = Pending
    /\ call' = [NoCall EXCEPT !.name = "task", !.collection = collection,
                               !.rkey = rkey]
    /\ UNCHANGED <<keypair, clock, pc, op, log, saved, wasm, docs, utc,
                   generated>>

\* create_commit, "Get the latest commit version"
task_get_latest_version(t) ==
    /\ tasks[t].pc = "stored"
    /\ IF get_identity = None
       THEN /\ tasks' = [tasks EXCEPT ![t] = NoTask]
            /\ ret' = Err("InvalidOperation")
       ELSE /\ tasks' = [tasks EXCEPT ![t].pc = "versioned",
                                      ![t].version = get_latest_version + 1]
            /\ UNCHANGED ret
    /\ UNCHANGED <<store, keypair, clock, pc, op, call, log, begun,
                   persisted, saved, wasm, docs, utc, generated>>

\* create_commit, "Get previous commit CID if exists"
task_get_commit(t) ==
    /\ tasks[t].pc = "versioned"
    /\ tasks' = [tasks EXCEPT ![t].pc = "linked",
                              ![t].prev = prev_of(tasks[t].version)]
    /\ UNCHANGED <<store, keypair, clock, pc, op, call, ret, log, begun,
                   persisted, saved, wasm, docs, utc, generated>>

\* create_commit from crypto.sign to store.set(commit), and the return
task_store_commit(t) ==
    /\ tasks[t].pc = "linked"
    /\ tasks' = [tasks EXCEPT ![t] = NoTask]
    /\ IF keypair = None
       THEN /\ ret' = Err("CryptoError")
            /\ UNCHANGED <<store, log>>
       ELSE LET commit == task_commit(get_identity[1], tasks[t].version,
                                      tasks[t].prev, ser_op(tasks[t].op[1]),
                                      clock)
            IN /\ store' = kv_set(store, commit_key(tasks[t].version),
                                  ser_commit(commit))
               /\ log' = Append(log, commit.cid)
               /\ ret' = Ok(None)
    /\ UNCHANGED <<keypair, clock, pc, op, call, begun, persisted, saved,
                   wasm, docs, utc, generated>>

\* Mutations of several callers over one store, interleaving at the awaits
NextTasks ==
    \/ init_identity
    \/ \E t \in Tasks, c \in Collections, k \in RecordKeys, v \in Values :
         \/ task_begin(t, "Create", c, k, v)
         \/ task_begin(t, "Update", c, k, v)
         \/ task_begin(t, "Delete", c, k, v)
    \/ \E t \in Tasks : task_get_latest_version(t)
    \/ \E t \in Tasks : task_get_commit(t)
    \/ \E t \in Tasks : task_store_commit(t)

SpecTasks == Init /\ [][NextTasks]_vars

\* The mutations and the listing over collections and keys that contain '/'
NextPaths ==
    \/ init_identity
    \/ \E c \in PathCollections, k \in PathKeys, v \in Values :
         create_record(c, k, v)
    \/ \E c \in PathCollections, k \in PathKeys, v \in Values :
         update_record(c, k, v)
    \/ \E c \in PathCollections, k \in PathKeys : delete_record(c, k)
    \/ create_commit
    \/ \E c \in PathCollections : list_records(c)
    \/ tick

SpecPaths == Init /\ [][NextPaths]_vars

\* The mutations together with the export of the store
NextBackup ==
    \/ Next
    \/ backup

SpecBackup == Init /\ [][NextBackup]_vars

\* Mutations that run to their end, backup, and restore of a backup taken
\* from this repository
NextRestore ==
    \/ init_identity
    \/ \E c \in Collections, k \in RecordKeys, v \in Values :
         create_record(c, k, v)
    \/ \E c \in Collections, k \in RecordKeys, v \in Values :
         update_record(c, k, v)
    \/ \E c \in Collections, k \in RecordKeys : delete_record(c, k)
    \/ create_commit
    \/ backup
    \/ keep_backup
    \/ saved # None /\ restore(saved[1].backup)

SpecRestore == Init /\ [][NextRestore]_vars

\* Backups whose key material was replaced after backup() returned them:
\* by bytes cut short, and by the secret key of another identity
rekeyed(b) ==
    {[b EXCEPT !.keypair = "truncated"], [b EXCEPT !.keypair = "skOther"]}

\* The same, with restore also given backups that carry other key material
NextImport ==
    \/ NextRestore
    \/ saved # None /\ \E b \in rekeyed(saved[1].backup) : restore(b)

SpecImport == Init /\ [][NextImport]_vars

\* The same, with restore also given backups changed after they were taken
NextCorrupted ==
    \/ NextRestore
    \/ saved # None /\ \E b \in corrupted(saved[1].backup) : restore(b)

SpecCorrupted == Init /\ [][NextCorrupted]_vars

---------------------------------------------------------------------------
(* The synchronous Repository the browser binding and the snapshot codec   *)
(* are written against: head, materialized map and the three storage keys  *)
(* of the design, over the binding's IndexedDbStore (a cache and a dirty   *)
(* flag).                                                                  *)

\* Did::new
Did_new(did) ==
    IF Len(did) >= 1 /\ did[1] = "did:" THEN Ok(did) ELSE Err("InvalidDid")

\* Cid::from_bytes
Cid_from_bytes(data) == <<"bafyrei", data>>

\* Record::path
Record_path(collection, rkey) == <<collection, "/", rkey>>

\* Commit::signing_bytes
signing_bytes(c) ==
    [did |-> c.did, operation |-> c.operation, collection |-> c.collection,
     rkey |-> c.rkey, record_cid |-> c.record_cid, prev |-> c.prev,
     timestamp |-> c.timestamp]

\* IndexedDbStore::new
IndexedDbStore_new == [cache |-> EmptyStore, dirty |-> FALSE]

\* IndexedDbStore::put that marks the store dirty and writes nothing
IndexedDbStore_put_dropped(st, key, value) ==
    [cache |-> st.cache, dirty |-> TRUE]

\* IndexedDbStore::put
IndexedDbStore_put(st, key, value) ==
    [cache |-> kv_set(st.cache, key, value), dirty |-> TRUE]

\* Repository::new followed by Repository::load over the store it was given
Repository_load(did, st) ==
    [did |-> did,
     head |-> IF <<"head">> \in DOMAIN st.cache
              THEN Some(st.cache[<<"head">>]) ELSE None,
     materialized |->
        [path \in {<<k[2], "/", k[4]>> :
                     k \in {j \in DOMAIN st.cache : j[1] = "record:"}} |->
            st.cache[<<"record:", path[1], "/", path[3]>>]],
     store |-> st]

\* Repository::create_record
Repository_create_record(repo, collection, rkey, value, now) ==
    LET path == Record_path(collection, rkey)
        record == [collection |-> collection, rkey |-> rkey, value |-> value,
                   created_at |-> now]
        record_cid == Cid_from_bytes(value)
        unsigned == [did |-> repo.did, operation |-> "Create",
                     collection |-> collection, rkey |-> rkey,
                     record_cid |-> Some(record_cid), prev |-> repo.head,
                     timestamp |-> now, signature |-> None]
        commit == [unsigned EXCEPT
                     !.signature = Some([signer |-> <<"pk", "skWasm">>,
                                         msg |-> signing_bytes(unsigned)])]
        commit_cid == Cid_from_bytes(signing_bytes(commit))
        st1 == IndexedDbStore_put(repo.store,
                                  <<"record:", collection, "/", rkey>>, record)
        st2 == IndexedDbStore_put(st1, <<"commit:", commit_cid>>, commit)
        st3 == IndexedDbStore_put(st2, <<"head">>, commit_cid)
    IN IF value.kind # "object" \/ path \in DOMAIN repo.materialized
       THEN [repo |-> repo, result |-> Err("ValidationError")]
       ELSE [repo |-> [repo EXCEPT
                         !.head = Some(commit_cid),
                         !.materialized =
                            [q \in DOMAIN repo.materialized \cup {path} |->
                               IF q = path THEN record
                               ELSE repo.materialized[q]],
                         !.store = st3],
             result |-> Ok(record_cid)]

\* Repository::list_records
Repository_list_records(repo, collection) ==
    {repo.materialized[path] :
        path \in {q \in DOMAIN repo.materialized : q[1] = collection}}

\* The keys of the persisted commits that Repository::get_commits scans
commit_keys_of(repo) == {k \in DOMAIN repo.store.cache : k[1] = "commit:"}

\* Repository::get_commits, scanning the commit keys in the order given
Repository_get_commits(repo, scan) ==
    sort_by_timestamp([i \in DOMAIN scan |-> repo.store.cache[scan[i]]])

---------------------------------------------------------------------------
(* snapshot.rs: Snapshot and its JSON form *)

\* serde_json of an Option: null or the value
option_to_json(o) == IF o = None THEN <<"null">> ELSE <<"value", o[1]>>
option_from_json(j) == IF j[1] = "null" THEN None ELSE Some(j[2])

\* chrono's serde of DateTime<Utc>: an RFC 3339 string
to_rfc3339(t) == <<"rfc3339", t>>
parse_from_rfc3339(j) == j[2]

\* Commit_to_json writing every signature as null
Commit_to_json_unsigned(c) ==
    <<<<"did", c.did>>, <<"operation", c.operation>>,
      <<"collection", c.collection>>, <<"rkey", c.rkey>>,
      <<"record_cid", option_to_json(c.record_cid)>>,
      <<"prev", option_to_json(c.prev)>>,
      <<"timestamp", to_rfc3339(c.timestamp)>>,
      <<"signature", option_to_json(None)>>>>

\* Commit (Serialize)
Commit_to_json(c) ==
    <<<<"did", c.did>>, <<"operation", c.operation>>,
      <<"collection", c.collection>>, <<"rkey", c.rkey>>,
      <<"record_cid", option_to_json(c.record_cid)>>,
      <<"prev", option_to_json(c.prev)>>,
      <<"timestamp", to_rfc3339(c.timestamp)>>,
      <<"signature", option_to_json(c.signature)>>>>

\* Commit (Deserialize)
Commit_from_json(j) ==
    [did |-> j[1][2], operation |-> j[2][2], collection |-> j[3][2],
     rkey |-> j[4][2], record_cid |-> option_from_json(j[5][2]),
     prev |-> option_from_json(j[6][2]),
     timestamp |-> parse_from_rfc3339(j[7][2]),
     signature |-> option_from_json(j[8][2])]

\* Record (Serialize, Deserialize)
Record_to_json(r) ==
    <<<<"collection", r.collection>>, <<"rkey", r.rkey>>,
      <<"value", r.value>>, <<"created_at", to_rfc3339(r.created_at)>>>>
Record_from_json(j) ==
    [collection |-> j[1][2], rkey |-> j[2][2], value |-> j[3][2],
     created_at |-> parse_from_rfc3339(j[4][2])]

\* Snapshot::from_repo, with the commits as get_commits listed them
Snapshot_from_repo(repo, commits, now) ==
    [did |-> repo.did,
     records |-> <<>>,
     commits |-> commits,
     exported_at |-> to_rfc3339(now),
     version |-> "1.0.0"]

\* Snapshot::to_json
Snapshot_to_json(snapshot) ==
    <<<<"did", snapshot.did>>,
      <<"records", [i \in DOMAIN snapshot.records |->
                      Record_to_json(snapshot.records[i])]>>,
      <<"commits", [i \in DOMAIN snapshot.commits |->
                      Commit_to_json(snapshot.commits[i])]>>,
      <<"exported_at", snapshot.exported_at>>,
      <<"version", snapshot.version>>>>

\* Snapshot::from_json
Snapshot_from_json(json) ==
    [did |-> json[1][2],
     records |-> [i \in DOMAIN json[2][2] |-> Record_from_json(json[2][2][i])],
     commits |-> [i \in DOMAIN json[3][2] |-> Commit_from_json(json[3][2][i])],
     exported_at |-> json[4][2],
     version |-> json[5][2]]

---------------------------------------------------------------------------
(* wasm/src/lib.rs: WasmRepository *)

\* The state WasmRepository::init_identity leaves for a valid DID: a new
\* IndexedDbStore, and a Repository loaded from a clone of it
initialised(did) ==
    [repo |-> Some(Repository_load(did, IndexedDbStore_new)),
     store |-> Some(IndexedDbStore_new),
     did |-> Some(did)]

\* WasmRepository::init_identity
WasmRepository_init_identity(did_str) ==
    /\ pc = "idle"
    /\ call' = [NoCall EXCEPT !.name = "WasmRepository_init_identity",
                               !.value = Some(did_str)]
    /\ IF Did_new(did_str).status = "Ok"
       THEN /\ wasm' = initialised(did_str)
            /\ ret' = Ok(did_str)
       ELSE /\ ret' = Err("InvalidDid")
            /\ UNCHANGED wasm
    /\ UNCHANGED types
    /\ UNCHANGED <<store, keypair, clock, pc, op, log, begun, persisted,
                   saved>>

\* WasmRepository::create_post
WasmRepository_create_post(text) ==
    /\ pc = "idle"
    /\ call' = [NoCall EXCEPT !.name = "WasmRepository_create_post",
                               !.value = Some(text),
                               !.before = wasm.repo,
                               !.existed = wasm.store # None
                                              /\ wasm.store[1].dirty]
    /\ IF wasm.repo = None
       THEN /\ ret' = Err("Repository not initialized")
            /\ UNCHANGED wasm
       ELSE LET done == Repository_create_record(
                            wasm.repo[1], "app.bsky.feed.post",
                            <<"post_", clock>>,
                            [kind |-> "object", text |-> text,
                             createdAt |-> to_rfc3339(clock)],
                            clock)
            IN /\ wasm' = [wasm EXCEPT
                             !.repo = Some(done.repo),
                             !.store = Some([wasm.store[1] EXCEPT
                                               !.dirty = FALSE])]
               /\ ret' = done.result
    /\ UNCHANGED types
    /\ UNCHANGED <<store, keypair, clock, pc, op, log, begun, persisted,
                   saved>>

\* WasmRepository::backup, which is WasmRepository::export_for_publish
WasmRepository_backup ==
    /\ pc = "idle"
    /\ IF wasm.repo = None
       THEN /\ call' = [NoCall EXCEPT !.name = "WasmRepository_backup"]
            /\ ret' = Err("Repository not initialized")
       ELSE \E scan \in Orders(commit_keys_of(wasm.repo[1])) :
              LET snapshot ==
                    Snapshot_from_repo(
                        wasm.repo[1],
                        Repository_get_commits(wasm.repo[1], scan), clock)
              IN /\ call' = [NoCall EXCEPT
                               !.name = "WasmRepository_backup",
                               !.record = Some(snapshot)]
                 /\ ret' = Ok(Snapshot_to_json(snapshot))
    /\ UNCHANGED types
    /\ UNCHANGED <<store, keypair, clock, pc, op, log, begun, persisted,
                   saved, wasm>>

\* The caller keeps the JSON that WasmRepository::backup has just returned
WasmRepository_keep_backup ==
    /\ pc = "idle"
    /\ call.name = "WasmRepository_backup"
    /\ ret.status = "Ok"
    /\ saved' = Some([backup |-> ret.value, taken_from |-> wasm.repo[1]])
    /\ UNCHANGED types
    /\ UNCHANGED <<store, keypair, clock, pc, op, call, ret, log, begun,
                   persisted, wasm>>

\* WasmRepository::restore
WasmRepository_restore(backup_json) ==
    /\ pc = "idle"
    /\ call' = [NoCall EXCEPT !.name = "WasmRepository_restore",
                               !.value = Some(backup_json)]
    /\ LET snapshot == Snapshot_from_json(backup_json)
       IN IF Did_new(snapshot.did).status = "Ok"
          THEN /\ wasm' = initialised(snapshot.did)
               /\ ret' = Ok(None)
          ELSE /\ ret' = Err("InvalidDid")
               /\ UNCHANGED wasm
    /\ UNCHANGED types
    /\ UNCHANGED <<store, keypair, clock, pc, op, log, begun, persisted,
                   saved>>

\* The browser binding: identity, posts, backup and restore of a kept backup
NextWasm ==
    \/ \E did_str \in DidStrings : WasmRepository_init_identity(did_str)
    \/ \E text \in Texts : WasmRepository_create_post(text)
    \/ WasmRepository_backup
    \/ WasmRepository_keep_backup
    \/ saved # None /\ WasmRepository_restore(saved[1].backup)
    \/ tick

SpecWasm == Init /\ [][NextWasm]_vars

\* api.rs create_post up to and including the store.set(record) of
\* Repo::create_record: the record key is the reading of Date::now()
api_create_post(text) ==
    write_record("create_post", "Create", "app.bsky.feed.post",
                 decimal[clock],
                 [kind |-> "object", type |-> "app.bsky.feed.post",
                  text |-> text, createdAt |-> to_rfc3339(clock)])

\* The browser API of api.rs: each call makes a Repo over the same store
NextApi ==
    \/ init_identity
    \/ \E text \in Texts : api_create_post(text)
    \/ create_commit
    \/ tick

SpecApi == Init /\ [][NextApi]_vars

\* Repository::load called again on the repository the binding holds
Repository_load_again ==
    /\ pc = "idle"
    /\ wasm.repo # None
    /\ call' = [NoCall EXCEPT !.name = "Repository_load",
                               !.record = wasm.repo]
    /\ wasm' = [wasm EXCEPT
                  !.repo = Some(Repository_load(wasm.repo[1].did,
                                                wasm.repo[1].store))]
    /\ ret' = Ok(None)
    /\ UNCHANGED types
    /\ UNCHANGED <<store, keypair, clock, pc, op, log, begun, persisted,
                   saved>>

\* The browser binding with further calls of load
NextLoad ==
    \/ NextWasm
    \/ Repository_load_again

SpecLoad == Init /\ [][NextLoad]_vars

\* CommitOp
CommitOps == {"Create", "Update", "Delete"}

\* Commit::new
Commit_new(did, operation, collection, rkey, record_cid, prev, now) ==
    [did |-> did, operation |-> operation, collection |-> collection,
     rkey |-> rkey, record_cid |-> record_cid, prev |-> prev,
     timestamp |-> now, signature |-> None]

\* Commit::validate with the Update arm of its match left out
Commit_validate_create_only(c) ==
    IF c.operation = "Create" /\ c.record_cid = None
    THEN Err("InvalidCommit")
    ELSE Ok(None)

\* Commit::validate
Commit_validate(c) ==
    IF c.operation \in {"Create", "Update"} /\ c.record_cid = None
    THEN Err("InvalidCommit")
    ELSE Ok(None)

\* The CIDs a caller hands to Commit::new
SomeCids == {Cid_from_bytes(value) : value \in Values}

\* Commit::new(..).validate()
validate(operation, record_cid, prev) ==
    /\ pc = "idle"
    /\ LET commit == Commit_new(<<"did:", "example:alice">>, operation,
                                "app.bsky.feed.post", "post1", record_cid,
                                prev, clock)
       IN /\ call' = [NoCall EXCEPT !.name = "validate",
                                     !.record = Some(commit)]
          /\ ret' = Commit_validate(commit)
    /\ UNCHANGED types
    /\ UNCHANGED <<store, keypair, clock, pc, op, log, begun, persisted,
                   saved, wasm>>

\* The browser binding, with commits built and validated beside it
NextCommit ==
    \/ NextWasm
    \/ \E operation \in CommitOps,
          record_cid \in {None} \cup {Some(cid) : cid \in SomeCids},
          prev \in {None} \cup {Some(cid) : cid \in SomeCids} :
         validate(operation, record_cid, prev)

SpecCommit == Init /\ [][NextCommit]_vars

\* Nsid::new
Nsid_new(nsid) ==
    IF \E i \in DOMAIN nsid : nsid[i] = "." THEN Ok(nsid)
    ELSE Err("ValidationError")

\* RecordKey::new
RecordKey_new(key) == key

\* format!("{}", n) of a timestamp: its decimal digits
RECURSIVE to_decimal(_)
to_decimal(n) ==
    IF n < 10 THEN <<n>> ELSE Append(to_decimal(n \div 10), n % 10)

\* RecordKey::generate at the reading of Utc::now() given
RecordKey_generate(now) == <<"tid_">> \o to_decimal(now)

\* The strings handed to the constructors, as sequences of tokens
IdStrings ==
    {<<>>, <<"did:", "plc:test123">>, <<"invalid">>,
     <<"app", ".", "bsky", ".", "feed">>, <<".">>, <<"did">>}

\* Did::new(did)
new_did(did) ==
    /\ pc = "idle"
    /\ call' = [NoCall EXCEPT !.name = "Did_new", !.value = Some(did)]
    /\ ret' = Did_new(did)
    /\ UNCHANGED types
    /\ UNCHANGED <<store, keypair, clock, pc, op, log, begun, persisted,
                   saved, wasm>>

\* Nsid::new(nsid)
new_nsid(nsid) ==
    /\ pc = "idle"
    /\ call' = [NoCall EXCEPT !.name = "Nsid_new", !.value = Some(nsid)]
    /\ ret' = Nsid_new(nsid)
    /\ UNCHANGED types
    /\ UNCHANGED <<store, keypair, clock, pc, op, log, begun, persisted,
                   saved, wasm>>

\* RecordKey::new(key), which returns the key and no Result
new_record_key(key) ==
    /\ pc = "idle"
    /\ call' = [NoCall EXCEPT !.name = "RecordKey_new", !.value = Some(key)]
    /\ ret' = Ok(RecordKey_new(key))
    /\ UNCHANGED types
    /\ UNCHANGED <<store, keypair, clock, pc, op, log, begun, persisted,
                   saved, wasm>>

\* RecordKey::generate()
generate ==
    /\ pc = "idle"
    /\ Len(generated) < MaxGenerated
    /\ generated' = Append(generated, RecordKey_generate(utc))
    /\ call' = [NoCall EXCEPT !.name = "RecordKey_generate"]
    /\ ret' = Ok(RecordKey_generate(utc))
    /\ UNCHANGED <<docs, utc, tasks>>
    /\ UNCHANGED <<store, keypair, clock, pc, op, log, begun, persisted,
                   saved, wasm>>

\* Time passes: a later call of Utc::now() reads more microseconds
elapse ==
    /\ \E later \in (utc + 1)..LastMicros : utc' = later
    /\ UNCHANGED <<docs, generated, tasks>>
    /\ UNCHANGED <<store, keypair, clock, pc, op, call, ret, log, begun,
                   persisted, saved, wasm>>

\* A caller of the identifier types
NextTypes ==
    \/ \E did \in IdStrings : new_did(did)
    \/ \E nsid \in IdStrings : new_nsid(nsid)
    \/ \E key \in IdStrings : new_record_key(key)
    \/ generate
    \/ elapse

SpecTypes == Init /\ [][NextTypes]_vars

\* create_record and update_record called with any serde_json::Value
NextJson ==
    \/ init_identity
    \/ \E c \in Collections, k \in RecordKeys, v \in JsonValues :
         create_record(c, k, v)
    \/ \E c \in Collections, k \in RecordKeys, v \in JsonValues :
         update_record(c, k, v)
    \/ create_commit
    \/ abort

SpecJson == Init /\ [][NextJson]_vars

---------------------------------------------------------------------------
(* automerge_wrapper.rs: AutomergeDoc, a serde_json cache beside an        *)
(* Automerge document.  An Automerge document is the set of the changes    *)
(* it holds; a change is named by its actor and sequence number, lists the *)
(* heads it was made on, and carries its put operations in order.  The     *)
(* value of a key is that of the put with the greatest operation id among  *)
(* the puts on the key that no later put has overwritten.                  *)

\* serde_json::Value as a tagged tuple.  A number is PosInt, NegInt or
\* Float as in serde_json's Number; a Float is held as twice its value, so
\* that halves are exact.  An Object carries its map from keys to values.
Object(map) == <<"Object", map>>

\* The keys of the JSON objects, in the order the map iterates them
Fields == <<"a", "b">>

\* The JSON values handed to from_json
DocValues ==
    {Object([a |-> <<"String", "x">>, b |-> <<"PosInt", 1>>]),
     Object([a |-> <<"Float", 3>>]),
     Object([a |-> <<"Bool", TRUE>>, b |-> <<"PosInt", I64_MAX + 1>>]),
     Object([a |-> Object([n |-> <<"NegInt", -1>>]), b |-> <<"NegInt", -1>>]),
     <<"Array", <<"x">>>>}

\* The JSON values handed to update
NewValues ==
    {Object([a |-> <<"Float", 3>>]),
     Object([a |-> Object([n |-> <<"NegInt", -1>>]), b |-> <<"NegInt", -1>>])}

\* Value::as_i64
as_i64(val) ==
    IF val[1] = "PosInt"
    THEN IF val[2] <= I64_MAX THEN Some(val[2]) ELSE None
    ELSE IF val[1] = "NegInt" THEN Some(val[2]) ELSE None

\* Value::as_f64
as_f64(val) ==
    IF val[1] \in {"PosInt", "NegInt"} THEN Some(2 * val[2])
    ELSE IF val[1] = "Float" THEN Some(val[2]) ELSE None

\* The scalar that from_json and update put for a JSON value, if any
put_value(val) ==
    IF val[1] = "String" THEN Some(<<"Str", val[2]>>)
    ELSE IF as_i64(val) # None THEN Some(<<"Int", as_i64(val)[1]>>)
    ELSE IF as_f64(val) # None THEN Some(<<"F64", as_f64(val)[1]>>)
    ELSE IF val[1] = "Bool" THEN Some(<<"Boolean", val[2]>>)
    ELSE None

\* AutomergeDoc::scalar_to_json, on the scalars the wrapper puts
scalar_to_json(scalar) ==
    IF scalar[1] = "Str" THEN <<"String", scalar[2]>>
    ELSE IF scalar[1] = "Int"
    THEN IF scalar[2] < 0 THEN <<"NegInt", scalar[2]>>
         ELSE <<"PosInt", scalar[2]>>
    ELSE IF scalar[1] = "F64" THEN <<"Float", scalar[2]>>
    ELSE <<"Bool", scalar[2]>>

\* Automerge::new, with the random actor it draws
Automerge_new(actor) == [actor |-> actor, changes |-> {}]

\* Change::hash
hash(c) == <<c.actor, c.seq>>

hashes_of(changes) == {hash(c) : c \in changes}

\* The hashes given and the hashes of all the changes they depend on
RECURSIVE ancestors(_, _)
ancestors(changes, hashes) ==
    LET more == hashes \cup
                UNION {c.deps : c \in {x \in changes : hash(x) \in hashes}}
    IN IF more = hashes THEN hashes ELSE ancestors(changes, more)

\* Automerge::get_heads
get_heads(am) ==
    {hash(c) : c \in {x \in am.changes :
                        \A y \in am.changes : hash(x) \notin y.deps}}

\* The greatest operation counter in the document
max_op(am) ==
    IF am.changes = {} THEN 0
    ELSE LET last == {c.start_op + Len(c.ops) - 1 : c \in am.changes}
         IN CHOOSE m \in last : \A n \in last : n <= m

op_keys(c) == {c.ops[i][1] : i \in DOMAIN c.ops}

op_of(c, key) == CHOOSE i \in DOMAIN c.ops : c.ops[i][1] = key

op_id(c, key) == <<c.start_op + op_of(c, key) - 1, c.actor>>

\* The changes whose put on the key no other change of the document has
\* overwritten
visible(am, key) ==
    {c \in am.changes :
        /\ key \in op_keys(c)
        /\ ~\E d \in am.changes :
              /\ d # c
              /\ key \in op_keys(d)
              /\ hash(c) \in ancestors(am.changes, d.deps)}

\* Operation ids are ordered by counter, then by actor
lamport_less(x, y) == x[1] < y[1] \/ (x[1] = y[1] /\ x[2] < y[2])

\* ReadDoc::map_range at the root: every key with a put, under the value of
\* the winning put
map_range(am) ==
    [key \in UNION {op_keys(c) : c \in am.changes} |->
        LET c == CHOOSE w \in visible(am, key) :
                    \A d \in visible(am, key) :
                       d = w \/ lamport_less(op_id(d, key), op_id(w, key))
        IN c.ops[op_of(c, key)][2]]

\* The puts a transaction over the map makes, in order: one per key with a
\* scalar value, but none where the key holds that very value already
puts(am, map) ==
    LET made(key) ==
            /\ key \in DOMAIN map
            /\ put_value(map[key]) # None
            /\ ~ /\ Cardinality(visible(am, key)) = 1
                 /\ map_range(am)[key] = put_value(map[key])[1]
        keys == SelectSeq(Fields, made)
    IN [i \in DOMAIN keys |-> <<keys[i], put_value(map[keys[i]])[1]>>]

\* doc.transaction(), the puts of from_json and update, tx.commit(): a
\* transaction that made no put commits no change
transaction(am, map) ==
    IF Len(puts(am, map)) = 0 THEN am
    ELSE [am EXCEPT !.changes = @ \cup
            {[actor |-> am.actor,
              seq |-> Cardinality({c \in am.changes :
                                     c.actor = am.actor}) + 1,
              deps |-> get_heads(am),
              start_op |-> max_op(am) + 1,
              ops |-> puts(am, map)]}]

\* Automerge::merge
Automerge_merge(am, other) ==
    [am EXCEPT !.changes = @ \cup other.changes]

\* Automerge::get_changes
Automerge_get_changes(am, have_deps) ==
    {c \in am.changes : hash(c) \notin ancestors(am.changes, have_deps)}

\* Automerge::apply_changes that keeps only the changes it is given
Automerge_apply_changes_replacing(am, changes) ==
    [am EXCEPT !.changes = changes]

\* Automerge::apply_changes: a change the document holds is skipped
Automerge_apply_changes(am, changes) ==
    [am EXCEPT !.changes =
        @ \cup {c \in changes : hash(c) \notin hashes_of(am.changes)}]

\* AutomergeDoc::new
AutomergeDoc_new(actor) ==
    [doc |-> Automerge_new(actor),
     cached_json |-> Some(Object(EmptyStore))]

\* AutomergeDoc::from_json
AutomergeDoc_from_json(value, actor) ==
    [doc |-> IF value[1] = "Object"
             THEN transaction(Automerge_new(actor), value[2])
             ELSE Automerge_new(actor),
     cached_json |-> Some(value)]

\* AutomergeDoc::save
AutomergeDoc_save(d) == <<"automerge", d.doc.changes>>

\* AutomergeDoc::load, with the random actor Automerge::load draws
AutomergeDoc_load(bytes, actor) ==
    [doc |-> [actor |-> actor, changes |-> bytes[2]],
     cached_json |-> None]

\* AutomergeDoc::update that starts the CRDT structure anew from the value
AutomergeDoc_update_anew(d, value) ==
    [doc |-> IF value[1] = "Object"
             THEN transaction(Automerge_new(d.doc.actor), value[2])
             ELSE Automerge_new(d.doc.actor),
     cached_json |-> Some(value)]

\* AutomergeDoc::update
AutomergeDoc_update(d, value) ==
    [doc |-> IF value[1] = "Object" THEN transaction(d.doc, value[2])
             ELSE d.doc,
     cached_json |-> Some(value)]

\* AutomergeDoc::to_json
AutomergeDoc_to_json(d) ==
    IF d.cached_json # None THEN d.cached_json[1]
    ELSE Object([key \in DOMAIN map_range(d.doc) |->
                    scalar_to_json(map_range(d.doc)[key])])

\* AutomergeDoc::merge without its clearing of the cache
AutomergeDoc_merge_cached(d, other) ==
    [doc |-> Automerge_merge(d.doc, other.doc), cached_json |-> d.cached_json]

\* AutomergeDoc::merge
AutomergeDoc_merge(d, other) ==
    [doc |-> Automerge_merge(d.doc, other.doc), cached_json |-> None]

\* AutomergeDoc::get_changes
AutomergeDoc_get_changes(d, have_deps) ==
    Automerge_get_changes(d.doc, have_deps)

\* AutomergeDoc::apply_changes
AutomergeDoc_apply_changes(d, changes) ==
    [doc |-> Automerge_apply_changes(d.doc, changes), cached_json |-> None]


\* The call of a method of AutomergeDoc on the document under a handle
DocCall(name, h, input) ==
    [NoCall EXCEPT !.name = name, !.rkey = h, !.value = input]

\* What the wrapper never touches
outside == <<store, keypair, clock, pc, op, log, begun, persisted, saved,
             wasm, utc, generated, tasks>>

\* The documents made so far
made == {h \in DocIds : docs[h].held # None}

\* The name the next document is bound to
next_handle == Handles[Cardinality(made) + 1]

\* The random actor a new Automerge document draws is none of those drawn
\* before it, and may be ordered before or after them
Actors == (1..Len(Handles)) \ {docs[h].held[1].doc.actor : h \in made}

\* doc = AutomergeDoc::new()
new_doc(h) ==
    /\ made # DocIds
    /\ h = next_handle
    /\ \E actor \in Actors :
         docs' = [docs EXCEPT ![h] = [held |-> Some(AutomergeDoc_new(actor)),
                                      written |-> {}, writes |-> 0,
                                      by |-> "AutomergeDoc_new"]]
    /\ call' = DocCall("AutomergeDoc_new", h, None)
    /\ ret' = Ok(None)
    /\ UNCHANGED outside

\* doc = AutomergeDoc::from_json(value)
from_json(h, value) ==
    /\ made # DocIds
    /\ h = next_handle
    /\ \E actor \in Actors :
         docs' = [docs EXCEPT
                    ![h] = [held |-> Some(AutomergeDoc_from_json(value,
                                                                  actor)),
                            written |-> {value}, writes |-> 1,
                            by |-> "from_json"]]
    /\ call' = DocCall("from_json", h, None)
    /\ ret' = Ok(None)
    /\ UNCHANGED outside

\* doc.update(value)
update(h, value) ==
    /\ docs[h].held # None
    /\ docs[h].writes < MaxWrites
    /\ docs' = [docs EXCEPT
                  ![h] = [held |-> Some(AutomergeDoc_update(@.held[1], value)),
                          written |-> @.written \cup {value},
                          writes |-> @.writes + 1, by |-> "update"]]
    /\ call' = DocCall("update", h, None)
    /\ ret' = Ok(None)
    /\ UNCHANGED outside

\* doc = AutomergeDoc::load(&other.save())
load(h, g) ==
    /\ made # DocIds
    /\ h = next_handle
    /\ docs[g].held # None
    /\ \E actor \in Actors :
         docs' = [docs EXCEPT
                    ![h] = [held |-> Some(AutomergeDoc_load(
                                        AutomergeDoc_save(docs[g].held[1]),
                                        actor)),
                            written |-> docs[g].written, writes |-> 0,
                            by |-> "load"]]
    /\ call' = DocCall("load", h, Some(g))
    /\ ret' = Ok(None)
    /\ UNCHANGED outside

\* doc.to_json()
to_json(h) ==
    /\ docs[h].held # None
    /\ call' = DocCall("to_json", h, None)
    /\ ret' = Ok(AutomergeDoc_to_json(docs[h].held[1]))
    /\ UNCHANGED <<outside, docs>>

\* doc.merge(other)
merge(h, g) ==
    /\ h # g
    /\ docs[h].held # None
    /\ docs[g].held # None
    /\ docs' = [docs EXCEPT
                  ![h] = [held |-> Some(AutomergeDoc_merge(docs[h].held[1],
                                                           docs[g].held[1])),
                          written |-> @.written \cup docs[g].written,
                          writes |-> @.writes, by |-> "merge"]]
    /\ call' = DocCall("merge", h, Some(g))
    /\ ret' = Ok(None)
    /\ UNCHANGED outside

\* The heads a caller passes to get_changes: none, or the get_heads() of a
\* document it holds
known_heads ==
    {{}} \cup {get_heads(docs[g].held[1].doc) :
                 g \in {x \in DocIds : docs[x].held # None}}

\* doc.apply_changes(other.get_changes(have_deps)), on a document that
\* holds the heads the changes are taken since
apply_changes(h, g, have_deps) ==
    /\ docs[h].held # None
    /\ docs[g].held # None
    /\ have_deps \subseteq hashes_of(docs[h].held[1].doc.changes)
    /\ LET changes == AutomergeDoc_get_changes(docs[g].held[1], have_deps)
       IN /\ docs' = [docs EXCEPT
                        ![h] = [held |-> Some(AutomergeDoc_apply_changes(
                                                 docs[h].held[1], changes)),
                                written |-> @.written \cup docs[g].written,
                          writes |-> @.writes,
                          by |-> "apply_changes"]]
          /\ call' = [DocCall("apply_changes", h, Some(changes)) EXCEPT
                         !.existed =
                            changes \subseteq docs[h].held[1].doc.changes,
                         !.before =
                            IF changes \subseteq docs[h].held[1].doc.changes
                            THEN Some(docs[h].held[1].doc) ELSE None]
    /\ ret' = Ok(None)
    /\ UNCHANGED outside

\* The caller of the wrapper
NextDoc ==
    \/ \E h \in DocIds : new_doc(h)
    \/ \E h \in DocIds, value \in DocValues : from_json(h, value)
    \/ \E h \in DocIds, value \in NewValues : update(h, value)
    \/ \E h, g \in DocIds : load(h, g)
    \/ \E h \in DocIds : to_json(h)
    \/ \E h, g \in DocIds : merge(h, g)
    \/ \E h, g \in DocIds, have_deps \in known_heads :
         apply_changes(h, g, have_deps)

SpecDoc == Init /\ [][NextDoc]_vars

---------------------------------------------------------------------------
(* Views of the store used by the properties *)

commit_keys == list_keys(COMMITS_PREFIX)

\* The commit persisted at position n, as serialised (its own cid field)
stored_commit(n) == de_commit(store[commit_key(n)])

finished == pc = "idle" /\ ret.status # "Pending"

mutation(names) == call.name \in names /\ finished

\* Every mutation begun before the last call ended with its commit stored
earlier_succeeded ==
    Len(log) = (IF ret.status = "Ok" THEN begun ELSE begun - 1)

persisted_commits == {de_commit(store[key]) : key \in commit_keys}

\* Repo::list_records before its sort: the records under a collection's prefix
records_in(collection) ==
    {de_record(store[key]) :
        key \in {k \in DOMAIN store :
                    starts_with_all(k, collection_prefix(collection))}}

\* What restore was given, once it has returned Ok
restored == call.name = "restore" /\ ret.status = "Ok"
given == call.value[1]

\* The keys a backup names: the identity, its commits' and its records'
keys_of(b) ==
    {IDENTITY_KEY}
      \cup {commit_key(b.commits[i].version) : i \in DOMAIN b.commits}
      \cup {record_key(b.records[i].uri.collection, b.records[i].uri.rkey) :
               i \in DOMAIN b.records}

\* Every mutation begun so far has returned Ok
all_succeeded == pc = "idle" /\ Len(log) = begun

---------------------------------------------------------------------------
(* C1: on a repository written only by create/update/delete, the persisted *)
(* commits sit at positions 1..N in the order they were appended; the n-th *)
(* has prev = None iff n = 1, and for n > 1 its prev is the CID carried by *)
(* commit n-1.                                                             *)
C1_ChainLinks ==
    /\ commit_keys = {commit_key(n) : n \in 1..Len(log)}
    /\ \A n \in 1..Len(log) :
         /\ stored_commit(n).cid = log[n]
         /\ stored_commit(n).prev = None <=> n = 1
         /\ n > 1 => stored_commit(n).prev = Some(stored_commit(n - 1).cid)

C1_Witness ==
    /\ Len(log) = 3
    /\ stored_commit(1).prev = None
    /\ stored_commit(3).prev = Some(stored_commit(2).cid)

---------------------------------------------------------------------------
(* C2: create_record on a path that already holds a record (put there by a *)
(* successful earlier mutation) fails with ValidationError and leaves the  *)
(* stored record and the head unchanged.                                   *)
C2_CreateOnExistingRejected ==
    (mutation({"create_record"}) /\ call.existed /\ earlier_succeeded) =>
        /\ ret.status = "ValidationError"
        /\ get_record(call.collection, call.rkey) = call.before
        /\ head = call.head

---------------------------------------------------------------------------
(* C3: on an initialised repository, update_record and delete_record on a  *)
(* path that holds no record fail with NotFound and persist no record and  *)
(* no commit.                                                              *)
C3_MissingPathNotFound ==
    (mutation({"update_record", "delete_record"}) /\ ~call.existed
        /\ get_identity # None) =>
        /\ ret.status = "NotFound"
        /\ get_record(call.collection, call.rkey) = None
        /\ head = call.head

---------------------------------------------------------------------------
(* C4: a record is persisted before its commit: in every state, also one   *)
(* left by an operation that stopped between two storage calls, every      *)
(* persisted Create/Update commit names a record that was persisted, and   *)
(* an operation stopped half way has left its record and no commit.        *)
C4_NoOrphanCommit ==
    /\ \A c \in persisted_commits :
         c.data[1] \in {"Create", "Update"} =>
            <<record_key(c.data[2].collection, c.data[2].rkey),
              compute_cid(c.data[2].value)>> \in persisted
    /\ (call.name \in {"create_record", "update_record"}
          /\ ret.status = "StorageError") =>
            /\ <<record_key(call.collection, call.rkey),
                 compute_cid(call.value)>> \in persisted
            /\ head = call.head

C4_Witness ==
    /\ call.name = "update_record"
    /\ ret.status = "StorageError"
    /\ \E c \in persisted_commits : c.data[1] = "Create"
    /\ get_record(call.collection, call.rkey) # None
    /\ get_record(call.collection, call.rkey)[1].value = call.value
    /\ \A c \in persisted_commits : c.data[2].value # call.value

---------------------------------------------------------------------------
(* C5: create_record(p, v1), update_record(p, v2), delete_record(p) on a   *)
(* fresh repository leave exactly 3 commits and no record at p, and the    *)
(* commit listing returns them in the order Create, Update, Delete.        *)
C5_CreateUpdateDeleteListing ==
    (/\ call.name = "backup" /\ ret.status = "Ok"
     /\ begun = 3 /\ Len(log) = 3
     /\ stored_commit(1).data[1] = "Create"
     /\ stored_commit(2).data[1] = "Update"
     /\ stored_commit(3).data[1] = "Delete"
     /\ stored_commit(2).data[2].rkey = stored_commit(1).data[2].rkey
     /\ stored_commit(3).data[2].rkey = stored_commit(1).data[2].rkey) =>
        /\ Cardinality(commit_keys) = 3
        /\ get_record(stored_commit(1).data[2].collection,
                      stored_commit(1).data[2].rkey) = None
        /\ Len(ret.value.commits) = 3
        /\ ret.value.commits[1].data[1] = "Create"
        /\ ret.value.commits[2].data[1] = "Update"
        /\ ret.value.commits[3].data[1] = "Delete"

---------------------------------------------------------------------------
(* C6: after a successful create_record(c, k, v), get_record(c, k) returns *)
(* the record create_record returned: its value is v and its CID is the    *)
(* CID of v computed on its own.                                           *)
C6_CreateThenGet ==
    (mutation({"create_record"}) /\ ret.status = "Ok") =>
        /\ get_record(call.collection, call.rkey) # None
        /\ get_record(call.collection, call.rkey) = ret.value
        /\ get_record(call.collection, call.rkey)[1].value = call.value
        /\ get_record(call.collection, call.rkey)[1].cid
             = compute_cid(call.value)

C6_Witness ==
    /\ mutation({"create_record"}) /\ ret.status = "Ok"
    /\ get_record(call.collection, call.rkey) # None
    /\ get_record(call.collection, call.rkey)[1].timestamp = 2

---------------------------------------------------------------------------
(* C7: every commit the engine persisted verifies against the repository's *)
(* own key, and a commit with one of its fields changed (did, operation,   *)
(* record key, prev or timestamp) and the signature kept does not.         *)

\* Checking a commit's signature: the payload create_commit signed is the
\* commit's data, verified with Crypto::verify against the repository's DID
verify_commit(c) == verify(c.data, c.sig, get_identity[1])

other_did == bytes_to_did(verifying_key("skOther"))

tampered(c) ==
    {[c EXCEPT !.did = other_did]}
      \cup {[c EXCEPT !.timestamp = t] : t \in Times \ {c.timestamp}}
      \cup {[c EXCEPT !.prev = p] : p \in {None, Some(c.cid)} \ {c.prev}}
      \cup {[c EXCEPT !.data = <<o, c.data[2]>>] :
               o \in {"Create", "Update", "Delete"} \ {c.data[1]}}
      \cup {[c EXCEPT !.data = <<c.data[1], [c.data[2] EXCEPT !.rkey = k]>>] :
               k \in RecordKeys \ {c.data[2].rkey}}

C7_SignatureCoversCommit ==
    \A c \in persisted_commits :
        /\ verify_commit(c)
        /\ \A t \in tampered(c) : ~verify_commit(t)

---------------------------------------------------------------------------
(* C8: the commit log is append-only under create/update/delete: a step    *)
(* never changes or removes a persisted commit, a mutation that succeeds   *)
(* persists exactly one new commit, and no other step persists any.        *)
C8_AppendOnly ==
    [][LET old == commit_keys
           new == {k \in DOMAIN store' : starts_with(k, COMMITS_PREFIX)}
       IN /\ \A k \in old : k \in new /\ store'[k] = store[k]
          /\ IF pc = "commit" /\ ret'.status = "Ok"
             THEN Cardinality(new \ old) = 1
             ELSE new = old]_vars

C8_Witness ==
    /\ mutation({"create_record", "update_record", "delete_record"})
    /\ ret.status = "Ok"
    /\ Cardinality(commit_keys) = 3
    /\ begun = 3

---------------------------------------------------------------------------
(* C9: the head, the CID the next mutation links to as prev, is the CID of *)
(* the most recently appended commit, and is absent exactly when no commit *)
(* is persisted.                                                           *)
C9_HeadIsLastAppended ==
    /\ head = (IF log = <<>> THEN None ELSE Some(log[Len(log)]))
    /\ head = None <=> commit_keys = {}

C9_Witness ==
    /\ pc = "idle"
    /\ Len(log) = 2
    /\ begun = 2
    /\ head = Some(stored_commit(2).cid)
    /\ head # Some(stored_commit(1).cid)

---------------------------------------------------------------------------
(* C10: after successful mutations, the persisted commits listed in        *)
(* ascending timestamp order have every commit after the commit its prev   *)
(* points to, also when two commits carry the same timestamp.              *)

C10_SortedListingFollowsChain ==
    (call.name = "backup" /\ ret.status = "Ok" /\ Len(log) = begun) =>
        LET listing == sort_by_timestamp(ret.value.commits)
        IN \A i, j \in DOMAIN listing :
              listing[j].prev = Some(listing[i].cid) => i < j

---------------------------------------------------------------------------
(* C11: after create/update/delete calls that all succeeded, the records   *)
(* readable through get_record and list_records are the replay of the     *)
(* persisted commits in chain order: a path holds the value of its latest  *)
(* Create/Update commit and is absent when its latest commit is a Delete   *)
(* or it has no commit.                                                    *)

\* The path -> value map after applying the commits at positions 1..n
RECURSIVE replay(_)
replay(n) ==
    IF n = 0 THEN [p \in {} |-> None]
    ELSE LET o == stored_commit(n).data
             path == <<o[2].collection, o[2].rkey>>
             m == replay(n - 1)
         IN IF o[1] = "Delete"
            THEN [p \in DOMAIN m \ {path} |-> m[p]]
            ELSE [p \in DOMAIN m \cup {path} |->
                    IF p = path THEN o[2].value ELSE m[p]]

C11_RecordsAreReplayOfLog ==
    all_succeeded =>
        LET m == replay(get_latest_version)
        IN /\ \A c \in Collections, k \in RecordKeys :
                IF <<c, k>> \in DOMAIN m
                THEN /\ get_record(c, k) # None
                     /\ get_record(c, k)[1].value = m[<<c, k>>]
                ELSE get_record(c, k) = None
           /\ \A c \in Collections :
                {<<r.uri.rkey, r.value>> : r \in records_in(c)}
                  = {<<p[2], m[p]>> : p \in {q \in DOMAIN m : q[1] = c}}

C11_Witness ==
    /\ all_succeeded
    /\ begun = 3
    /\ stored_commit(3).data[1] = "Delete"
    /\ stored_commit(1).data[2].rkey = stored_commit(3).data[2].rkey
    /\ stored_commit(2).data[2].rkey # stored_commit(3).data[2].rkey
    /\ Cardinality(DOMAIN replay(3)) = 1
    /\ \E c \in Collections : Cardinality(records_in(c)) = 1

---------------------------------------------------------------------------
(* C12: on an initialised repository, create_record and update_record      *)
(* called with a value that is not a JSON object fail with ValidationError *)
(* and persist neither a record nor a commit; no persisted record has a    *)
(* non-object value.                                                       *)

\* serde_json::Value::is_object
is_object(value) == value.kind = "object"

C12_NonObjectRejected ==
    /\ (mutation({"create_record", "update_record"})
          /\ ~is_object(call.value) /\ get_identity # None) =>
            /\ ret.status = "ValidationError"
            /\ get_record(call.collection, call.rkey) = call.before
            /\ head = call.head
    /\ \A key \in list_keys(RECORDS_PREFIX) :
          is_object(de_record(store[key]).value)

---------------------------------------------------------------------------
(* C13: a successful delete_record on a path that holds a record removes   *)
(* the persisted record of that path and leaves the record of every other  *)
(* path unchanged; it appends exactly one commit, a Delete of that path    *)
(* whose prev is the head the call found, and changes no earlier commit;   *)
(* afterwards get_record on the path returns none.                         *)
C13_DeleteRemovesOnlyItsRecord ==
    [][LET path == record_key(call'.collection, call'.rkey)
           commits_after ==
               {k \in DOMAIN store' : starts_with(k, COMMITS_PREFIX)}
           added == commits_after \ commit_keys
       IN /\ (pc = "idle" /\ pc' = "commit"
                 /\ call'.name = "delete_record" /\ call'.existed) =>
                /\ path \in DOMAIN store
                /\ DOMAIN store' = DOMAIN store \ {path}
                /\ \A k \in DOMAIN store' : store'[k] = store[k]
          /\ (pc = "commit" /\ call.name = "delete_record" /\ call.existed
                 /\ ret'.status = "Ok") =>
                /\ path \notin DOMAIN store'
                /\ \A k \in DOMAIN store : k \in DOMAIN store'
                                              /\ store'[k] = store[k]
                /\ DOMAIN store' \ DOMAIN store = added
                /\ Cardinality(added) = 1
                /\ \A k \in added :
                      /\ de_commit(store'[k]).data[1] = "Delete"
                      /\ de_commit(store'[k]).data[2]
                           = [collection |-> call.collection,
                              rkey |-> call.rkey]
                      /\ de_commit(store'[k]).prev = call.head]_vars

C13_Witness ==
    /\ mutation({"delete_record"}) /\ ret.status = "Ok" /\ call.existed
    /\ get_record(call.collection, call.rkey) = None
    /\ \E k \in RecordKeys : get_record(call.collection, k) # None
    /\ Len(log) = 3
    /\ stored_commit(3).data[1] = "Delete"
    /\ stored_commit(3).prev = call.head

---------------------------------------------------------------------------
(* C14: the identity is set once: init_identity on a repository that has   *)
(* an identity returns the stored DID and changes neither the store nor    *)
(* the keypair, and no step of create_record, update_record, delete_record *)
(* or backup changes the stored DID.                                       *)
C14_IdentitySetOnce ==
    [][get_identity # None =>
         /\ IDENTITY_KEY \in DOMAIN store'
         /\ store'[IDENTITY_KEY] = store[IDENTITY_KEY]
         /\ keypair' = keypair
         /\ call'.name = "init_identity" =>
               /\ store' = store
               /\ ret' = Ok(get_identity[1])]_vars

C14_Witness ==
    /\ call.name = "init_identity"
    /\ ret = Ok(get_identity[1])
    /\ Len(log) = 2
    /\ list_keys(RECORDS_PREFIX) # {}
    /\ keypair # None

---------------------------------------------------------------------------
(* C15: restore is not additive: after a successful restore of a backup    *)
(* taken from the repository the store holds the backup's identity, the    *)
(* backup's commits and the backup's records and no other key; what was    *)
(* stored before the restore and is not in the backup is gone.             *)
C15_RestoreNotAdditive ==
    restored =>
        /\ DOMAIN store = keys_of(given)
        /\ get_identity = Some(given.did)
        /\ persisted_commits
             = {given.commits[i] : i \in DOMAIN given.commits}
        /\ {de_record(store[k]) : k \in list_keys(RECORDS_PREFIX)}
             = {given.records[i] : i \in DOMAIN given.records}

\* A commit and a record written after the backup was taken are gone
C15_Witness ==
    /\ restored
    /\ Len(given.commits) = 1
    /\ Len(log) = 2
    /\ \A c \in persisted_commits : c.cid # log[2]
    /\ \E e \in persisted : e[1] \notin DOMAIN store
    /\ Cardinality(list_keys(RECORDS_PREFIX)) = 1

---------------------------------------------------------------------------
(* C16: backup/restore round trip: after restore of the backup taken from  *)
(* a repository reached by successful operations, the store holds the same *)
(* identity, the same commits (prev links and signatures unchanged) and    *)
(* the same records as when the backup was taken, the keypair is the one   *)
(* exported, and the head, which the next mutation links to, is the CID of *)
(* the last commit of the backup.                                          *)

\* The CID of the commit of a backup that has the highest version
last_cid_of(b) ==
    IF b.commits = <<>> THEN None
    ELSE LET i == CHOOSE j \in DOMAIN b.commits :
                    \A k \in DOMAIN b.commits :
                       b.commits[k].version <= b.commits[j].version
         IN Some(b.commits[i].cid)

C16_BackupRestoreRoundTrip ==
    (restored /\ saved # None /\ given = saved[1].backup) =>
        /\ store = saved[1].taken_from
        /\ keypair = Some(given.keypair)
        /\ head = last_cid_of(given)

C16_Witness ==
    /\ restored /\ saved # None /\ given = saved[1].backup
    /\ Len(given.commits) = 2
    /\ Len(given.records) = 1
    /\ given.commits[1].version = 2
    /\ head = Some(given.commits[1].cid)
    /\ store = saved[1].taken_from

---------------------------------------------------------------------------
(* C17: restore validates nothing: a backup whose commits carry a wrong    *)
(* signature, a cut prev link, a position listed twice or a position left  *)
(* out is accepted without error, and every commit and record it lists is  *)
(* stored as given.                                                        *)
C17_AllGivenCommitsStored ==
    call.name = "restore" =>
        /\ ret.status = "Ok"
        /\ persisted_commits
             = {given.commits[i] : i \in DOMAIN given.commits}
        /\ {de_record(store[k]) : k \in list_keys(RECORDS_PREFIX)}
             = {given.records[i] : i \in DOMAIN given.records}

\* The last entry of a list that is stored under the same key as entry i
last_at_version(commits, i) ==
    CHOOSE j \in DOMAIN commits :
        /\ commits[j].version = commits[i].version
        /\ \A k \in DOMAIN commits :
              commits[k].version = commits[i].version => k <= j

last_at_path(records, i) ==
    CHOOSE j \in DOMAIN records :
        /\ records[j].uri = records[i].uri
        /\ \A k \in DOMAIN records : records[k].uri = records[i].uri => k <= j

(* C17 as it holds: such a backup is accepted without error and the store  *)
(* holds nothing but what the backup lists, each commit verbatim under its *)
(* position and each record verbatim under its path; of commits listed at  *)
(* one position, or records at one path, only the last listed is stored.   *)
C17_RestoreStoresVerbatim ==
    call.name = "restore" =>
        /\ ret.status = "Ok"
        /\ DOMAIN store = keys_of(given)
        /\ \A i \in DOMAIN given.commits :
              store[commit_key(given.commits[i].version)]
                = ser_commit(given.commits[last_at_version(given.commits, i)])
        /\ \A i \in DOMAIN given.records :
              store[record_key(given.records[i].uri.collection,
                               given.records[i].uri.rkey)]
                = ser_record(given.records[last_at_path(given.records, i)])

\* A backup of two commits, one of them signed by another key, was restored
C17_Witness ==
    /\ restored
    /\ given # saved[1].backup
    /\ Len(given.commits) = 2
    /\ Cardinality(persisted_commits) = 2
    /\ \E c \in persisted_commits : ~verify(c.data, c.sig, given.did)

---------------------------------------------------------------------------
(* C18: snapshot round trip: Snapshot::from_json of the JSON that          *)
(* Snapshot::from_repo(repo).to_json() produced has the same did and the   *)
(* same commits in the same order as the snapshot taken, which are the     *)
(* repository's did and all of its commits.                                *)

\* The snapshot WasmRepository::backup took, once it has returned its JSON
exported == call.name = "WasmRepository_backup" /\ ret.status = "Ok"
taken == call.record[1]

C18_SnapshotRoundTrip ==
    exported =>
        LET loaded == Snapshot_from_json(ret.value)
        IN /\ loaded.did = taken.did
           /\ loaded.commits = taken.commits
           /\ loaded.did = wasm.repo[1].did
           /\ {loaded.commits[i] : i \in DOMAIN loaded.commits}
                = {wasm.repo[1].store.cache[k] :
                     k \in commit_keys_of(wasm.repo[1])}

C18_Witness ==
    /\ exported
    /\ Len(Snapshot_from_json(ret.value).commits) = 2
    /\ Snapshot_from_json(ret.value).commits[1].prev = None
    /\ Snapshot_from_json(ret.value).commits[2].prev # None
    /\ Snapshot_from_json(ret.value).commits[2].signature # None

---------------------------------------------------------------------------
(* C19: a snapshot is a full-state export: the records of                  *)
(* Snapshot::from_repo(repo) are the records currently in the repository,  *)
(* one per live path with its current value, and no other.                 *)
C19_SnapshotHoldsAllRecords ==
    exported =>
        {<<taken.records[i].collection, taken.records[i].rkey,
           taken.records[i].value>> : i \in DOMAIN taken.records}
          = {<<wasm.repo[1].materialized[path].collection,
               wasm.repo[1].materialized[path].rkey,
               wasm.repo[1].materialized[path].value>> :
                 path \in DOMAIN wasm.repo[1].materialized}

---------------------------------------------------------------------------
(* C20: in the browser binding, restore of the JSON that backup() returned *)
(* leaves a repository whose records and commit log are those the          *)
(* repository had when the backup was taken.                               *)
C20_WasmRestoreRoundTrip ==
    (call.name = "WasmRepository_restore" /\ ret.status = "Ok"
        /\ saved # None /\ given = saved[1].backup) =>
        /\ wasm.repo # None
        /\ Repository_list_records(wasm.repo[1], "app.bsky.feed.post")
             = Repository_list_records(saved[1].taken_from,
                                       "app.bsky.feed.post")
        /\ {wasm.repo[1].store.cache[k] : k \in commit_keys_of(wasm.repo[1])}
             = {saved[1].taken_from.store.cache[k] :
                  k \in commit_keys_of(saved[1].taken_from)}

---------------------------------------------------------------------------
(* Views of the documents used by the properties *)

\* A JSON object whose top-level fields are all strings, integers, floats
\* or booleans
scalars_only(value) ==
    /\ value[1] = "Object"
    /\ \A key \in DOMAIN value[2] :
          value[2][key][1] \in {"String", "PosInt", "NegInt", "Float", "Bool"}

\* The document the last call was made on
called == docs[call.rkey].held[1]

\* to_json() has just returned for a document that was loaded from the
\* saved bytes of another and not changed since
read_after_load ==
    /\ call.name = "to_json"
    /\ docs[call.rkey].by = "load"

---------------------------------------------------------------------------
(* C21: scalar round trip of the CRDT wrapper: for every JSON object v     *)
(* whose top-level fields are all strings, integers, floats or booleans,   *)
(* to_json() of the document loaded from the saved bytes of from_json(v)   *)
(* returns exactly v.                                                      *)
C21_ScalarRoundTrip ==
    \A value \in DocValues :
       /\ read_after_load
       /\ docs[call.rkey].written = {value}
       /\ scalars_only(value)
       => ret.value = value

---------------------------------------------------------------------------
(* C22: after doc1.merge(doc2) the cache of doc1 is absent, and to_json()  *)
(* on doc1 returns an object whose fields are exactly the top-level scalar *)
(* fields written to doc1 or to doc2, each under a value that was written  *)
(* for it; no field holds a nested object or an array, even if doc1 held   *)
(* such a field in its cache before the merge.                             *)

\* The scalar values written for a key by the JSON values given, as
\* to_json reads them back
written_for(values, key) ==
    {scalar_to_json(put_value(value[2][key])[1]) :
        value \in {v \in values : /\ v[1] = "Object"
                                  /\ key \in DOMAIN v[2]
                                  /\ put_value(v[2][key]) # None}}

scalar_keys(values) ==
    {key \in {Fields[i] : i \in DOMAIN Fields} : written_for(values, key) # {}}

C22_MergeReadsScalarsOfBoth ==
    \A h \in made :
       docs[h].by = "merge" =>
          /\ docs[h].held[1].cached_json = None
          /\ call.name = "to_json" /\ call.rkey = h =>
                /\ ret.value[1] = "Object"
                /\ DOMAIN ret.value[2] = scalar_keys(docs[h].written)
                /\ \A key \in DOMAIN ret.value[2] :
                      ret.value[2][key] \in written_for(docs[h].written, key)

C22_Witness ==
    /\ call.name = "to_json"
    /\ docs[call.rkey].by = "merge"
    /\ docs[call.rkey].writes = 1
    /\ \E value \in docs[call.rkey].written : ~scalars_only(value)
    /\ \A g \in made \ {call.rkey} :
          /\ docs[g].written # {}
          /\ \A value \in docs[g].written : scalars_only(value)
    /\ Cardinality(DOMAIN ret.value[2]) = 2

---------------------------------------------------------------------------
(* C23: Commit.validate() fails with ValidationError exactly when the      *)
(* operation is Create or Update and record_cid is absent; it succeeds for *)
(* every Delete commit with or without record_cid, and every commit the    *)
(* engine persists for a create or update passes validate().               *)

validated == call.record[1]

lacks_record_cid(c) ==
    c.operation \in {"Create", "Update"} /\ c.record_cid = None

\* The commits the Repository of the browser binding has persisted
repository_commits ==
    IF wasm.repo = None THEN {}
    ELSE {wasm.repo[1].store.cache[k] : k \in commit_keys_of(wasm.repo[1])}

C23_ValidateFailsWithValidationError ==
    /\ call.name = "validate" =>
          /\ ret.status = "ValidationError" <=> lacks_record_cid(validated)
          /\ ret.status = "Ok" <=> ~lacks_record_cid(validated)
    /\ \A c \in repository_commits : Commit_validate(c).status = "Ok"

(* C23 as it holds: the failure is of kind InvalidCommit.                  *)
C23_ValidateFailsWithInvalidCommit ==
    /\ call.name = "validate" =>
          /\ ret.status = "InvalidCommit" <=> lacks_record_cid(validated)
          /\ ret.status = "Ok" <=> ~lacks_record_cid(validated)
          /\ validated.operation = "Delete" => ret.status = "Ok"
    /\ \A c \in repository_commits :
          /\ c.operation \in {"Create", "Update"}
          /\ Commit_validate(c).status = "Ok"

C23_Witness ==
    /\ call.name = "validate"
    /\ validated.operation = "Update"
    /\ validated.record_cid = None
    /\ ret.status = "InvalidCommit"
    /\ repository_commits # {}

---------------------------------------------------------------------------
(* C24: RecordKey::generate yields distinct keys for any two calls in the  *)
(* same process, and a key generated later compares lexicographically      *)
(* greater than every key generated earlier, also when two calls observe   *)
(* the same clock microsecond or the decimal length of the timestamp       *)
(* differs.                                                                *)

\* Order of two strings of digits as str compares them: by the first
\* position where they differ, a proper prefix being the lesser
RECURSIVE digits_less(_, _)
digits_less(x, y) ==
    IF Len(y) = 0 THEN FALSE
    ELSE IF Len(x) = 0 THEN TRUE
    ELSE IF x[1] # y[1] THEN x[1] < y[1]
    ELSE digits_less(Tail(x), Tail(y))

\* Order of two generated keys: both start with "tid_"
key_less(x, y) == digits_less(Tail(x), Tail(y))

C24_GeneratedKeysIncrease ==
    \A i, j \in DOMAIN generated :
       i < j => /\ generated[i] # generated[j]
                /\ key_less(generated[i], generated[j])

---------------------------------------------------------------------------
(* C25: No identifier is constructed from bad data: Did::new fails for     *)
(* every string without the "did:" prefix, Nsid::new fails for every       *)
(* string without a "." separator, RecordKey::new fails for the empty      *)
(* string, and each succeeds otherwise, returning a wrapper of exactly the *)
(* string given.                                                           *)

\* What is wrong with the string the constructor called was given
bad_data(name, s) ==
    CASE name = "Did_new" -> Len(s) = 0 \/ s[1] # "did:"
      [] name = "Nsid_new" -> \A i \in DOMAIN s : s[i] # "."
      [] name = "RecordKey_new" -> Len(s) = 0
      [] OTHER -> FALSE

C25_NoIdentifierFromBadData ==
    call.name \in {"Did_new", "Nsid_new", "RecordKey_new"} =>
        IF bad_data(call.name, call.value[1]) THEN ret.status # "Ok"
        ELSE ret = Ok(call.value[1])

---------------------------------------------------------------------------
(* C26: load() on an empty store succeeds and yields a repository with an  *)
(* absent head and an empty record view, and a further load() with no      *)
(* mutation in between leaves the head and the record view as they were.   *)

\* The repository the binding holds, and the one it held before the call
loaded == wasm.repo[1]
before_load == call.record[1]

C26_LoadIdempotent ==
    /\ call.name = "WasmRepository_init_identity" /\ ret.status = "Ok" =>
          /\ loaded.head = None
          /\ DOMAIN loaded.materialized = {}
    /\ call.name = "Repository_load" =>
          /\ ret.status = "Ok"
          /\ loaded.head = before_load.head
          /\ loaded.materialized = before_load.materialized

\* load() is called again on a repository that holds a post
C26_Witness ==
    /\ call.name = "Repository_load"
    /\ loaded.head # None
    /\ DOMAIN loaded.materialized # {}

---------------------------------------------------------------------------
(* C27: walking the prev links from the head ends at a commit with         *)
(* prev = None and visits every persisted commit exactly once, in reverse  *)
(* order of creation, after any sequence of successful mutations.          *)

\* The persisted commits that carry the CID given
commits_at(cid) == {c \in persisted_commits : c.cid = cid}

\* The CIDs met from the link given, following prev for at most fuel steps;
\* a link to no persisted commit, or fuel used up, ends the walk as lost
RECURSIVE walk(_, _)
walk(link, fuel) ==
    IF link = None THEN <<>>
    ELSE IF fuel = 0 \/ commits_at(link[1]) = {} THEN <<"lost">>
    ELSE LET c == CHOOSE x \in commits_at(link[1]) : TRUE
         IN <<c.cid>> \o walk(c.prev, fuel - 1)

\* The CIDs in log, last appended first
newest_first == [i \in DOMAIN log |-> log[Len(log) + 1 - i]]

C27_WalkIsHistoryReversed ==
    /\ walk(head, Cardinality(persisted_commits)) = newest_first
    /\ Cardinality(persisted_commits) = Len(log)
    /\ \A i, j \in DOMAIN log : i # j => log[i] # log[j]

\* Three mutations have succeeded and the walk has passed three commits
C27_Witness ==
    /\ all_succeeded
    /\ Len(log) = 3
    /\ Len(walk(head, 3)) = 3
    /\ stored_commit(1).prev = None

---------------------------------------------------------------------------
(* C28: a commit's CID is computed from every field except the signature:  *)
(* two commits that differ only in their signature have the same CID, and  *)
(* the CID used as prev by the next commit does not depend on the          *)
(* signature of the commit it points to.                                   *)

\* The commit given with the signature another key makes over the same data
resigned(c) ==
    [c EXCEPT !.sig = [signer |-> verifying_key("skOther"), msg |-> c.data]]

C28_CidIgnoresSignature ==
    \A n \in 1..Len(log) :
       /\ compute_cid(commit_for_cid(resigned(stored_commit(n))))
             = stored_commit(n).cid
       /\ n > 1 =>
             stored_commit(n).prev
                = Some(compute_cid(commit_for_cid(
                                      resigned(stored_commit(n - 1)))))

---------------------------------------------------------------------------
(* C29: update(v) never retracts: every top-level scalar field written to  *)
(* the CRDT structure by an earlier from_json or update is still in it     *)
(* after update(v), also when v lacks the field; so to_json() read from    *)
(* the cache (the fields of v) and to_json() after save() and load() (the  *)
(* stale fields too) can differ.                                           *)

\* The keys the CRDT structure of the document holds
crdt_keys(h) == DOMAIN map_range(docs[h].held[1].doc)

C29_UpdateNeverRetracts ==
    \A h \in made :
       /\ docs[h].by = "update" =>
             scalar_keys(docs[h].written) \subseteq crdt_keys(h)
       /\ docs[h].by = "load" /\ call.name = "to_json" /\ call.rkey = h =>
             DOMAIN ret.value[2] = scalar_keys(docs[h].written)

\* to_json() of a document loaded from the save() of an updated one returns
\* a field that to_json() of the updated one, read from its cache, lacks
C29_Witness ==
    /\ call.name = "to_json"
    /\ docs[call.rkey].by = "load"
    /\ \E g \in made :
          /\ docs[g].by = "update"
          /\ docs[g].held[1].doc.changes = called.doc.changes
          /\ LET cached == AutomergeDoc_to_json(docs[g].held[1])
             IN /\ cached[1] = "Object"
                /\ DOMAIN ret.value[2] \ DOMAIN cached[2] # {}

---------------------------------------------------------------------------
(* C30: apply_changes is idempotent: applying a list of changes obtained   *)
(* from get_changes to a document that already contains them succeeds and  *)
(* leaves the heads of the document and the fields of its CRDT structure,  *)
(* which to_json reads, as they were after the first application.          *)
C30_ApplyChangesIdempotent ==
    call.name = "apply_changes" /\ call.existed =>
       /\ ret.status = "Ok"
       /\ get_heads(called.doc) = get_heads(call.before[1])
       /\ map_range(called.doc) = map_range(call.before[1])

\* A list of changes has been applied to a document that held all of them
C30_Witness ==
    /\ call.name = "apply_changes"
    /\ call.existed
    /\ call.value[1] # {}
    /\ call.value[1] \subseteq called.doc.changes
    /\ called.cached_json = None

---------------------------------------------------------------------------
(* C31: list_records(c) returns exactly the records currently stored whose *)
(* collection is c, one per live key, after any sequence of create, update *)
(* and delete over several collections, and returns them with              *)
(* non-increasing timestamp (newest first).                                *)

\* The keys under which the store holds a record of the collection
live_keys(collection) ==
    {k \in list_keys(RECORDS_PREFIX) :
        de_record(store[k]).uri.collection = collection}

listed == ret.value

C31_ListIsTheCollection ==
    call.name = "list_records" =>
       /\ {listed[i] : i \in DOMAIN listed}
             = {de_record(store[k]) : k \in live_keys(call.collection)}
       /\ Len(listed) = Cardinality(live_keys(call.collection))
       /\ \A i, j \in DOMAIN listed :
             i < j => listed[i].timestamp >= listed[j].timestamp

---------------------------------------------------------------------------
(* C32: when two mutations on the same store interleave at their storage   *)
(* and signing awaits, both commits are persisted under distinct positions *)
(* and the chain stays linear: the number of persisted commits equals the  *)
(* number of successful mutations and no two commits share the same prev.  *)

\* No two persisted commits carry the same prev
no_shared_prev ==
    \A c, d \in persisted_commits : c # d => c.prev # d.prev

C32_InterleavedChainLinear ==
    /\ Cardinality(commit_keys) = Len(log)
    /\ no_shared_prev

(* C32, amended: when two mutations interleave, both can take the same     *)
(* position and the commit stored later replaces the other, so the number  *)
(* of persisted commits is at most the number of successful mutations; no  *)
(* two persisted commits share the same prev.                              *)
C32_InterleavedCommitsCanBeLost ==
    /\ Cardinality(commit_keys) <= Len(log)
    /\ no_shared_prev

\* Two mutations have interleaved and succeeded, and one commit is persisted
C32_Witness ==
    /\ \A t \in Tasks : tasks[t].pc = "idle"
    /\ Len(log) = 2
    /\ Cardinality(commit_keys) = 1

---------------------------------------------------------------------------
(* C33: in every reachable state, including states where delete_record     *)
(* stopped between removing the record and persisting its Delete commit,   *)
(* each path whose latest persisted commit is Create or Update still has a *)
(* persisted record.                                                       *)

\* The persisted commits whose operation names the path
commits_of(collection, rkey) ==
    {c \in persisted_commits :
        c.data[2].collection = collection /\ c.data[2].rkey = rkey}

\* The one of them stored last
latest_of(collection, rkey) ==
    CHOOSE c \in commits_of(collection, rkey) :
       \A d \in commits_of(collection, rkey) : d.version <= c.version

C33_LoggedRecordIsStored ==
    \A c \in Collections, k \in RecordKeys :
       (/\ commits_of(c, k) # {}
        /\ latest_of(c, k).data[1] \in {"Create", "Update"}) =>
          get_record(c, k) # None

---------------------------------------------------------------------------
(* C34: a mutation that returns an error changes nothing: if               *)
(* create_record, update_record or delete_record fails at any step         *)
(* (identity lookup, serialization, signing or a storage call), the        *)
(* persisted records and the persisted commits are the same as before the  *)
(* call.                                                                   *)

\* A mutation has returned an error
failed == /\ mutation({"create_record", "update_record", "delete_record"})
          /\ ret.status # "Ok"

C34_FailedMutationChangesNothing ==
    failed =>
       /\ get_record(call.collection, call.rkey) = call.before
       /\ head = call.head

(* C34, amended: a mutation that returns an error persists no commit: the  *)
(* persisted commits are the same as before the call. If it fails at the   *)
(* identity lookup, before its first storage call, the persisted records   *)
(* are the same too; if it fails later (signing or storing the commit),    *)
(* the record it has already written, or removed, stays so.                *)
C34_FailedMutationKeepsCommits ==
    failed =>
       /\ head = call.head
       /\ ret.status = "InvalidOperation" =>
             get_record(call.collection, call.rkey) = call.before
       /\ ret.status = "StorageError" =>
             get_record(call.collection, call.rkey) = call.record

\* update_record has returned an error and the record holds the new value
C34_Witness ==
    /\ failed
    /\ call.name = "update_record"
    /\ call.before # None
    /\ get_record(call.collection, call.rkey) # call.before
    /\ head # None

---------------------------------------------------------------------------
(* C35: a failed restore loses nothing: if restore(backup) returns an      *)
(* error (for example the keypair import rejects the key material of the   *)
(* backup), the store still holds the identity, the commits and the        *)
(* records it held before the call.                                        *)
C35_FailedRestoreLosesNothing ==
    call.name = "restore" /\ ret.status # "Ok" =>
       \A key \in DOMAIN call.before[1] :
          key \in DOMAIN store /\ store[key] = call.before[1][key]

---------------------------------------------------------------------------
(* C36: in WasmRepository the store that is flushed is the store the       *)
(* repository writes to: after create_post returns successfully, every     *)
(* record and commit key written by the operation is present in            *)
(* WasmRepository.store, that store was dirty before the flush and is not  *)
(* dirty after it.                                                         *)

\* The keys create_post has put into the store of the repository
written_by_post ==
    {k \in DOMAIN loaded.store.cache :
        k \notin DOMAIN call.before[1].store.cache}

C36_FlushedStoreIsWrittenStore ==
    call.name = "WasmRepository_create_post" /\ ret.status = "Ok" =>
       /\ written_by_post \subseteq DOMAIN wasm.store[1].cache
       /\ call.existed
       /\ ~wasm.store[1].dirty

---------------------------------------------------------------------------
(* C37: every successful create_post adds one new post: after k successful *)
(* create_post calls the post collection holds k records, and no call      *)
(* overwrites or is rejected because of an earlier post, also when two     *)
(* calls read the same clock millisecond.                                  *)

\* The records of the post collection
posts == records_in("app.bsky.feed.post")

C37_EveryPostIsNew ==
    /\ all_succeeded => Cardinality(posts) = Len(log)
    /\ pc = "idle" /\ call.name = "create_post" /\ get_identity # None =>
          /\ ret.status = "Ok"
          /\ ~call.existed

---------------------------------------------------------------------------
(* C38: while no identity is stored, create_record, update_record,         *)
(* delete_record and backup each fail with InvalidOperation and leave the  *)
(* store unchanged; consequently every persisted commit and record carries *)
(* the DID that was stored when it was written.                            *)

\* The records the store holds
stored_records == {de_record(store[k]) : k \in list_keys(RECORDS_PREFIX)}

C38_NoIdentityNoWrite ==
    /\ get_identity = None =>
          /\ DOMAIN store = {}
          /\ (finished /\ call.name \in {"create_record", "update_record",
                                         "delete_record", "backup"}) =>
                ret.status = "InvalidOperation"
    /\ \A c \in persisted_commits : Some(c.did) = get_identity
    /\ \A r \in stored_records : Some(r.uri.did) = get_identity

\* delete_record has failed on a repository that lost its identity, and its
\* keypair is still held
C38_Witness ==
    /\ get_identity = None
    /\ keypair # None
    /\ finished
    /\ call.name = "delete_record"
    /\ ret.status = "InvalidOperation"

---------------------------------------------------------------------------
(* C39: the record path is an injective identity: two different            *)
(* (collection, key) pairs never map to the same storage key, so creating, *)
(* updating or deleting a record at one pair never changes what get_record *)
(* returns for a different pair, including when collection or key contains *)
(* '/'.                                                                    *)

\* The (collection, key) pairs the mutations are called with
pairs == PathCollections \X PathKeys

\* What get_record returns for a pair is a record written at that pair: a
\* mutation at another pair has not reached its storage key
C39_RecordPathInjective ==
    \A p \in pairs :
       get_record(p[1], p[2]) # None =>
          /\ get_record(p[1], p[2])[1].uri.collection = p[1]
          /\ get_record(p[1], p[2])[1].uri.rkey = p[2]

---------------------------------------------------------------------------
(* C40: after a successful restore the stored identity is the DID of the   *)
(* imported signing key: the DID that get_identity returns equals the DID  *)
(* the signing capability derives from the imported keypair, so commits    *)
(* written after the restore are signed by the key their did names.        *)

C40_RestoredIdentityIsKeyDid ==
    /\ (finished /\ call.name = "restore" /\ ret.status = "Ok") =>
          get_identity = Some(bytes_to_did(verifying_key(keypair[1])))
    /\ \A c \in persisted_commits :
          Some(c.sig.signer) = did_to_bytes(c.did)

=============================================================================
